---- MODULE Spec2Model ----
\* Level calculations of the HypixelTwitchBot (src/calculations.py) over the
\* leveling tables loaded once at start-up (src/utils.py, LevelingData).
\* The XP of a level function and table entries are integers; a float level
\* is the exact rational <<numerator, denominator>> in lowest terms,
\* denominator > 0, and so is the skill XP of the overflow command.
EXTENDS Integers, Sequences, FiniteSets, TLC

\* leveling_data  Bot.leveling_data, the LevelingData loaded by Bot.__init__
\* fn             the level function of the call in progress, "idle" between calls
\* xp, skill_name, member_data, boss_key
\*                the arguments of that call ("" / NoMember where it takes none)
\* result         what the call returns: a float as a rational, the slayer
\*                level as an integer
\* target_level   the argument of _get_xp_for_target_level
\* provider       the XPProvider of src/commands/overflow_skills.py: its levels
\*                and its max_level (<<>> for None, <<m>> for the integer m)
\* iters          the iterators xp_generator() has returned so far, by name:
\*                the frame of inner(), the terms yielded, how next() ended
\* walk           the locals of the loop over the skills in
\*                process_overflow_skill_command (lines 54-68)
\* tasks          the calls in progress at the same time, by task name, each
\*                with its arguments, its place in the loop and its locals
\* loader         _load_leveling_data (src/utils.py): the leveling.json it
\*                finds and how the call ended
\* cache          a SkyblockCache (src/cache.py): its two Cache objects, each
\*                with its dict of key -> <<value, timestamp>> and its ttl
\* clock          what time.time() returns
\* written        for each Cache and key, the value and time of the last set()
\*                that no delete() or clear() has followed (history, not
\*                read by the cache)
\* call           the last call on the cache: its method, key, the time it
\*                read and what it returned
\* lookup         a call of _find_latest_profile (src/utils.py): the profiles
\*                it is given and the one it returns, by its place in the list
\* fetch          Bot._fetch_live_hypixel_streamers (src/twitch.py): where it
\*                is, its cursor, the usernames collected, what it returned
\* sim            the run simulation of the rtca command (src/commands/rtca.py
\*                lines 166-229): its locals
VARIABLES leveling_data, fn, xp, skill_name, member_data, boss_key, result,
          target_level, provider, iters, walk, tasks, loader,
          cache, clock, written, call, lookup, fetch, sim

vars == <<leveling_data, fn, xp, skill_name, member_data, boss_key, result,
          target_level, provider, iters, walk, tasks, loader,
          cache, clock, written, call, lookup, fetch, sim>>

----------------------------------------------------------------------------
\* Bounds of the enumerated inputs.

\* Longest table enumerated entry by entry.
MaxLen == 3
\* Largest entry of an enumerated table (entries are 0..MaxDelta).
MaxDelta == 2

\* Program constants.
DefaultCap == 50
TamingBaseCap == 50
TamingBonusCap == 10
FarmingBaseCap == 50
DungeonMaxLevel == 100
MaxClassLevel == 50

----------------------------------------------------------------------------
\* Python arithmetic and containers.

Min(a, b) == IF a <= b THEN a ELSE b
Max(a, b) == IF a >= b THEN a ELSE b
Abs(a) == IF a < 0 THEN -a ELSE a

RECURSIVE GCD(_, _)
GCD(a, b) == IF b = 0 THEN a ELSE GCD(b, a % b)

\* The float n / d (d > 0), in lowest terms.
Rat(n, d) == LET g == GCD(Abs(n), d) IN <<n \div g, d \div g>>

\* float(n)
Float(n) == <<n, 1>>

RatLE(a, b) == a[1] * b[2] <= b[1] * a[2]
RatLT(a, b) == a[1] * b[2] < b[1] * a[2]

\* min(a, b) of two floats (Python returns the first of two equal values).
RatMin(a, b) == IF RatLT(b, a) THEN b ELSE a
RatMinus(a, b) == Rat(a[1] * b[2] - b[1] * a[2], a[2] * b[2])

\* s[lo] + ... + s[hi] (1-based, 0 when lo > hi), summed by halves.
RECURSIVE SumRange(_, _, _)
SumRange(s, lo, hi) ==
    IF lo > hi THEN 0
    ELSE IF lo = hi THEN s[lo]
    ELSE LET mid == (lo + hi) \div 2
         IN SumRange(s, lo, mid) + SumRange(s, mid + 1, hi)

\* sum(s[0:n]) for 0 <= n <= len(s)
SumTo(s, n) == SumRange(s, 1, n)

\* sum(s)
PySum(s) == SumTo(s, Len(s))

\* s[:n], with Python's clamping and its negative indices.
PySlice(s, n) ==
    IF n >= 0 THEN SubSeq(s, 1, Min(n, Len(s)))
    ELSE SubSeq(s, 1, Max(Len(s) + n, 0))

\* d.get(key, default)
DictGet(d, key, default) == IF key \in DOMAIN d THEN d[key] ELSE default

EmptyDict == [k \in {} |-> 0]

----------------------------------------------------------------------------
\* Member context: None, the empty dict, or a dict holding the two fields
\* the calculation reads (a missing field reads as its default, 0).

NoMember == [kind |-> "none", pet_types_sacrificed |-> 0, farming_level_cap |-> 0]
EmptyMember == [kind |-> "empty", pet_types_sacrificed |-> 0, farming_level_cap |-> 0]
Member(k, b) == [kind |-> "dict", pet_types_sacrificed |-> k, farming_level_cap |-> b]

\* Python truthiness of member_data.
Truthy(md) == md.kind = "dict"

----------------------------------------------------------------------------
\* The state of a "for i, required_xp in enumerate(table)" loop: the running
\* total, the level counted so far and, once the loop was left by a return or
\* a break, the value it was left with.

LoopStart == [done |-> FALSE, total |-> 0, level |-> 0, ret |-> Float(0)]
Continue(total, level) == [done |-> FALSE, total |-> total, level |-> level, ret |-> Float(0)]
Leave(st, value) == [done |-> TRUE, total |-> st.total, level |-> st.level, ret |-> value]

----------------------------------------------------------------------------
\* calculate_skill_level

\* Lines 40-53: the base cap from level_caps, replaced for taming and farming
\* when a non-empty member context is given.
effective_max_level(ld, name, md) ==
    LET base_max_level == DictGet(ld.level_caps, name, DefaultCap) IN
    IF name = "taming" /\ Truthy(md)
    THEN TamingBaseCap + Min(md.pet_types_sacrificed, TamingBonusCap)
    ELSE IF name = "farming" /\ Truthy(md)
    THEN FarmingBaseCap + md.farming_level_cap
    ELSE base_max_level

\* Lines 66-82: one iteration of the loop, at index i (0-based).
SkillStep(tbl, x, emax, i, st) ==
    IF i >= emax
    THEN Leave(st, RatMin(Float(st.level), Float(emax)))
    ELSE LET required_xp == tbl[i + 1]
             total_xp_required == st.total + required_xp
         IN IF x >= total_xp_required
            THEN Continue(total_xp_required, st.level + 1)
            ELSE LET current_level_xp == total_xp_required - required_xp
                     next_level_xp_needed == required_xp
                 IN IF next_level_xp_needed > 0
                    THEN Leave(st, RatMin(Rat(st.level * next_level_xp_needed
                                                + (x - current_level_xp),
                                              next_level_xp_needed),
                                          Float(emax)))
                    ELSE Leave(st, RatMin(Float(st.level), Float(emax)))

\* The iterations lo .. hi-1 of the loop, in order, from loop state st.
RECURSIVE SkillLoop(_, _, _, _, _, _)
SkillLoop(tbl, x, emax, lo, hi, st) ==
    IF st.done \/ lo >= hi THEN st
    ELSE IF hi = lo + 1 THEN SkillStep(tbl, x, emax, lo, st)
    ELSE LET mid == (lo + hi) \div 2
         IN SkillLoop(tbl, x, emax, mid, hi, SkillLoop(tbl, x, emax, lo, mid, st))

\* Lines 63-85: the whole loop and the return that follows it.
SkillWalk(tbl, x, emax) ==
    LET st == SkillLoop(tbl, x, emax, 0, Len(tbl), LoopStart)
    IN IF st.done THEN st.ret ELSE RatMin(Float(st.level), Float(emax))

\* A variant that keeps walking past the cap: no cap test in the loop, no
\* clamp on what it returns.
SkillWalkUncapped(tbl, x, emax) ==
    LET st == SkillLoop(tbl, x, Len(tbl), 0, Len(tbl), LoopStart)
    IN IF st.done THEN st.ret ELSE Float(st.level)

\* A variant that measures the XP against the whole table, not its first
\* effective_max_level entries, and walks it without the cap.
calculate_skill_level_uncapped(ld, x, name, md) ==
    IF ld.xp_table = <<>> THEN Float(0)
    ELSE LET emax == effective_max_level(ld, name, md) IN
         IF x >= PySum(ld.xp_table) THEN Float(emax)
         ELSE SkillWalkUncapped(ld.xp_table, x, emax)

\* A variant whose cap total is one entry short (the slice ends at
\* effective_max_level - 1).
calculate_skill_level_short_total(ld, x, name, md) ==
    IF ld.xp_table = <<>> THEN Float(0)
    ELSE LET emax == effective_max_level(ld, name, md) IN
         IF x >= PySum(PySlice(ld.xp_table, emax - 1)) THEN Float(emax)
         ELSE SkillWalk(ld.xp_table, x, emax)

\* A variant without the empty-table test.
calculate_skill_level_no_empty_test(ld, x, name, md) ==
    LET emax == effective_max_level(ld, name, md) IN
    IF x >= PySum(PySlice(ld.xp_table, emax)) THEN Float(emax)
    ELSE SkillWalk(ld.xp_table, x, emax)

calculate_skill_level(ld, x, name, md) ==
    IF ld.xp_table = <<>> THEN Float(0)
    ELSE LET xp_table_to_use == ld.xp_table
             emax == effective_max_level(ld, name, md)
             total_xp_for_max == PySum(PySlice(xp_table_to_use, emax))
         IN IF x >= total_xp_for_max
            THEN Float(emax)
            ELSE SkillWalk(xp_table_to_use, x, emax)

----------------------------------------------------------------------------
\* calculate_hotm_level

\* A variant that drops the progress within the level.
HotmStepNoProgress(tbl, x, i, st) ==
    LET required_xp == tbl[i + 1]
        total_xp_required == st.total + required_xp
    IN IF x >= total_xp_required
       THEN Continue(total_xp_required, st.level + 1)
       ELSE Leave(st, Float(st.level))

\* Lines 113-131: one iteration of the loop, at index i (0-based).
HotmStep(tbl, x, i, st) ==
    LET required_xp == tbl[i + 1]
        current_level_xp_threshold == st.total
        total_xp_required == st.total + required_xp
    IN IF x >= total_xp_required
       THEN Continue(total_xp_required, st.level + 1)
       ELSE LET xp_in_level == x - current_level_xp_threshold
                xp_needed_for_level == required_xp
            IN IF xp_needed_for_level > 0
               THEN Leave(st, Rat(st.level * xp_needed_for_level + xp_in_level,
                                  xp_needed_for_level))
               ELSE Leave(st, Float(st.level))

\* The iterations lo .. hi-1 of the loop, in order, from loop state st.
RECURSIVE HotmLoop(_, _, _, _, _)
HotmLoop(tbl, x, lo, hi, st) ==
    IF st.done \/ lo >= hi THEN st
    ELSE IF hi = lo + 1 THEN HotmStep(tbl, x, lo, st)
    ELSE LET mid == (lo + hi) \div 2
         IN HotmLoop(tbl, x, mid, hi, HotmLoop(tbl, x, lo, mid, st))

\* Lines 110-133: the whole loop and the return that follows it.
HotmWalk(tbl, x) ==
    LET st == HotmLoop(tbl, x, 0, Len(tbl), LoopStart)
    IN IF st.done THEN st.ret ELSE Float(st.level)

\* A variant whose max level is a fixed number of levels, not the table length.
calculate_hotm_level_fixed_max(ld, x) ==
    IF "hotm_brackets" \notin DOMAIN ld \/ ld.hotm_brackets = <<>> THEN Float(0)
    ELSE IF x >= PySum(ld.hotm_brackets) THEN Float(DefaultCap)
    ELSE HotmWalk(ld.hotm_brackets, x)

calculate_hotm_level(ld, x) ==
    IF "hotm_brackets" \notin DOMAIN ld \/ ld.hotm_brackets = <<>> THEN Float(0)
    ELSE LET xp_per_level == ld.hotm_brackets
             max_level == Len(xp_per_level)
             total_xp_for_max == PySum(xp_per_level)
         IN IF x >= total_xp_for_max
            THEN Float(max_level)
            ELSE HotmWalk(xp_per_level, x)

----------------------------------------------------------------------------
\* calculate_dungeon_level

\* A variant whose progress is xp / required_xp, the XP spent on the levels
\* below not subtracted.
DungeonStepRawProgress(tbl, x, max_level, i, st) ==
    IF i >= max_level
    THEN Leave(st, Float(st.level))
    ELSE LET required_xp == tbl[i + 1]
             total_xp_required == st.total + required_xp
         IN IF x >= total_xp_required
            THEN Continue(total_xp_required, st.level + 1)
            ELSE IF required_xp > 0
                 THEN Leave(st, Rat(st.level * required_xp + x, required_xp))
                 ELSE Leave(st, Float(st.level))

\* Lines 194-210: one iteration of the loop, at index i (0-based).
DungeonStep(tbl, x, max_level, i, st) ==
    IF i >= max_level
    THEN Leave(st, Float(st.level))
    ELSE LET required_xp == tbl[i + 1]
             current_level_xp_threshold == st.total
             total_xp_required == st.total + required_xp
         IN IF x >= total_xp_required
            THEN Continue(total_xp_required, st.level + 1)
            ELSE LET xp_in_level == x - current_level_xp_threshold
                     xp_needed_for_level == required_xp
                 IN IF xp_needed_for_level > 0
                    THEN Leave(st, Rat(st.level * xp_needed_for_level + xp_in_level,
                                       xp_needed_for_level))
                    ELSE Leave(st, Float(st.level))

\* The iterations lo .. hi-1 of the loop, in order, from loop state st.
RECURSIVE DungeonLoop(_, _, _, _, _, _)
DungeonLoop(tbl, x, max_level, lo, hi, st) ==
    IF st.done \/ lo >= hi THEN st
    ELSE IF hi = lo + 1 THEN DungeonStep(tbl, x, max_level, lo, st)
    ELSE LET mid == (lo + hi) \div 2
         IN DungeonLoop(tbl, x, max_level, mid, hi,
                        DungeonLoop(tbl, x, max_level, lo, mid, st))

\* Lines 192-213: the whole loop and the return that follows it.
DungeonWalk(tbl, x, max_level) ==
    LET st == DungeonLoop(tbl, x, max_level, 0, Len(tbl), LoopStart)
    IN IF st.done THEN st.ret ELSE Float(st.level)

\* A variant whose loop is never left at index max_level.
calculate_dungeon_level_no_break(ld, x) ==
    IF ld.catacombs_xp = <<>> THEN Float(0)
    ELSE IF x >= PySum(ld.catacombs_xp) THEN Float(DungeonMaxLevel)
    ELSE DungeonWalk(ld.catacombs_xp, x, Len(ld.catacombs_xp))

calculate_dungeon_level(ld, x) ==
    IF ld.catacombs_xp = <<>> THEN Float(0)
    ELSE LET max_level == DungeonMaxLevel
             xp_table == ld.catacombs_xp
             total_xp_for_max == PySum(xp_table)
         IN IF x >= total_xp_for_max
            THEN Float(max_level)
            ELSE DungeonWalk(xp_table, x, max_level)

----------------------------------------------------------------------------
\* calculate_class_level

\* Lines 233-247: one iteration of the loop, at index i (0-based).
\* A variant that interpolates whatever the entry is.
ClassStepNoGuard(tbl, x, i, st) ==
    LET required_xp == tbl[i + 1]
        current_level_xp_threshold == st.total
        total_xp_required == st.total + required_xp
    IN IF x >= total_xp_required
       THEN Continue(total_xp_required, st.level + 1)
       ELSE LET xp_in_level == x - current_level_xp_threshold
                xp_needed_for_level == required_xp
            IN Leave(st, <<st.level * xp_needed_for_level + xp_in_level,
                           xp_needed_for_level>>)

ClassStep(tbl, x, i, st) ==
    LET required_xp == tbl[i + 1]
        current_level_xp_threshold == st.total
        total_xp_required == st.total + required_xp
    IN IF x >= total_xp_required
       THEN Continue(total_xp_required, st.level + 1)
       ELSE LET xp_in_level == x - current_level_xp_threshold
                xp_needed_for_level == required_xp
            IN IF xp_needed_for_level > 0
               THEN Leave(st, Rat(st.level * xp_needed_for_level + xp_in_level,
                                  xp_needed_for_level))
               ELSE Leave(st, Float(st.level))

\* The iterations lo .. hi-1 of the loop, in order, from loop state st.
RECURSIVE ClassLoop(_, _, _, _, _)
ClassLoop(tbl, x, lo, hi, st) ==
    IF st.done \/ lo >= hi THEN st
    ELSE IF hi = lo + 1 THEN ClassStep(tbl, x, lo, st)
    ELSE LET mid == (lo + hi) \div 2
         IN ClassLoop(tbl, x, mid, hi, ClassLoop(tbl, x, lo, mid, st))

\* Lines 231-250: the whole loop and the return that follows it.
ClassWalk(tbl, x) ==
    LET st == ClassLoop(tbl, x, 0, Len(tbl), LoopStart)
    IN IF st.done THEN st.ret ELSE Float(st.level)

\* A variant that walks the whole catacombs table instead of its first 50
\* entries.
calculate_class_level_unsliced(ld, x) ==
    IF ld.catacombs_xp = <<>> THEN Float(0)
    ELSE IF x >= PySum(ld.catacombs_xp) THEN Float(MaxClassLevel)
    ELSE ClassWalk(ld.catacombs_xp, x)

calculate_class_level(ld, x) ==
    IF ld.catacombs_xp = <<>> THEN Float(0)
    ELSE LET max_class_level == MaxClassLevel
             xp_table == PySlice(ld.catacombs_xp, max_class_level)
             total_xp_for_max_class_level == PySum(xp_table)
         IN IF x >= total_xp_for_max_class_level
            THEN Float(max_class_level)
            ELSE ClassWalk(xp_table, x)

----------------------------------------------------------------------------
\* calculate_slayer_level

\* A variant that counts a level for a threshold met with XP to spare only.
SlayerStepStrict(thresholds, x, i, st) ==
    IF x > thresholds[i + 1]
    THEN Continue(st.total, i + 1)
    ELSE Leave(st, Float(st.level))

\* A variant that counts the thresholds met instead of taking the index.
SlayerStepOffByOne(thresholds, x, i, st) ==
    IF x >= thresholds[i + 1]
    THEN Continue(st.total, i)
    ELSE Leave(st, Float(st.level))

\* Lines 265-268: one iteration of "for i in range(max_level)".
SlayerStep(thresholds, x, i, st) ==
    IF x >= thresholds[i + 1]
    THEN Continue(st.total, i + 1)
    ELSE Leave(st, Float(st.level))

\* The iterations lo .. hi-1 of the loop, in order, from loop state st.
RECURSIVE SlayerLoop(_, _, _, _, _)
SlayerLoop(thresholds, x, lo, hi, st) ==
    IF st.done \/ lo >= hi THEN st
    ELSE IF hi = lo + 1 THEN SlayerStep(thresholds, x, lo, st)
    ELSE LET mid == (lo + hi) \div 2
         IN SlayerLoop(thresholds, x, mid, hi, SlayerLoop(thresholds, x, lo, mid, st))

\* An int, not a float.
calculate_slayer_level(ld, x, boss) ==
    IF "slayer_xp" \notin DOMAIN ld \/ boss \notin DOMAIN ld.slayer_xp THEN 0
    ELSE LET thresholds == ld.slayer_xp[boss]
             max_level == Len(thresholds)
         IN SlayerLoop(thresholds, x, 0, max_level, LoopStart).level

----------------------------------------------------------------------------
\* Inputs: the leveling tables a leveling.json can hold and the arguments of
\* the calls.

\* Every table of at most MaxLen entries, each entry in 0..MaxDelta.
ShortTables == UNION {[1..n -> 0..MaxDelta] : n \in 0..MaxLen}

\* Table lengths around the hard-coded caps (class 50, taming 50..60,
\* catacombs 100).
LongLens ==
    {MaxClassLevel, MaxClassLevel + 1,
     TamingBaseCap + TamingBonusCap, TamingBaseCap + TamingBonusCap + 1,
     DungeonMaxLevel, DungeonMaxLevel + 1}

\* A table of n entries: 2 for each of the first 50 levels, b afterwards.
LongTable(n, b) == [i \in 1..n |-> IF i <= MaxClassLevel THEN 2 ELSE b]

LongTables == {LongTable(n, b) : n \in LongLens, b \in 1..MaxDelta}

\* The tables of the documented scenarios.
ScenarioTables == {<<100, 200, 300>>, <<50, 100, 150, 200, 250>>}
ScenarioXPs == {0, 100, 150, 225, 600}

Tables == ShortTables \cup LongTables \cup ScenarioTables

\* The levels of a long table around which XP values are drawn.
KeyLevels(t) ==
    {k \in {MaxClassLevel, TamingBaseCap + 3, TamingBaseCap + TamingBonusCap,
            DungeonMaxLevel, Len(t)} : k <= Len(t)}

\* The XP values tried against table t: every value from -1 to one past the
\* table's total for an enumerated table, the values around the key levels
\* for a long one.
XPs(t) ==
    IF t \in ScenarioTables THEN ScenarioXPs
    ELSE IF t \in ShortTables THEN -1 .. (PySum(t) + 1)
    ELSE {SumTo(t, k) + d : k \in KeyLevels(t), d \in {-1, 0, 1}}

\* level_caps: absent from the file, or a map of caps.
CapsMaps == {EmptyDict, [mining |-> 2, taming |-> 60, farming |-> 60]}

\* The leveling data of a file whose tables all hold t (no slayer entry when
\* t is empty).
LevelingDataOf(t, caps) ==
    [xp_table |-> t, level_caps |-> caps, catacombs_xp |-> t, hotm_brackets |-> t,
     slayer_xp |-> IF t = <<>> THEN EmptyDict ELSE [b \in {"zombie"} |-> t]]

LevelingDatas == {LevelingDataOf(t, caps) : t \in Tables, caps \in CapsMaps}

\* (skill name, member context) pairs of calculate_skill_level calls.
SkillInputs ==
    {<<"mining", NoMember>>, <<"taming", NoMember>>, <<"taming", EmptyMember>>,
     <<"farming", NoMember>>}
    \cup {<<"taming", Member(k, 0)>> : k \in {0, 3, 10, 12}}
    \cup {<<"farming", Member(0, b)>> : b \in {0, 1, 10}}

BossKeys == {"zombie", "spider"}

----------------------------------------------------------------------------
\* State machine: Bot.__init__ loads leveling_data once; every command handler
\* then calls a calculation on it and returns.

\* No provider built, no iterator returned, no overflow command running.
NoProvider == [levels |-> <<>>, max_level |-> <<>>]
NoIters == [n \in {} |-> <<>>]
NoWalk ==
    [pc |-> "idle", total_xp |-> Float(0), current_xp |-> Float(0),
     achieved_level |-> 0, required_next_xp |-> 0, level |-> 0, it |-> <<>>,
     decimal_level |-> Float(0), error |-> ""]

overflow_vars == <<target_level, provider, iters, walk>>

\* No concurrent call in progress.
NoTasks == [t \in {} |-> <<>>]

\* leveling.json not opened yet.
NoLoader == [pc |-> "start", file |-> [kind |-> "missing"], outcome |-> ""]

\* None, as a value of the cache and as what a call returns.
None == "None"

\* Cache.__init__ (lines 11-14).
Cache(ttl) == [cache |-> EmptyDict, ttl |-> ttl]

\* SkyblockCache.__init__ (lines 77-85): two caches with the same ttl.
SkyblockCache(ttl) == [uuid_cache |-> Cache(ttl), skyblock_data_cache |-> Cache(ttl)]

\* No call has been made on the cache.
NoCall == [op |-> "", cache |-> "", key |-> "", time |-> 0, ret |-> None,
           stored |-> None]

\* Nothing has been set.
NothingWritten == [uuid_cache |-> EmptyDict, skyblock_data_cache |-> EmptyDict]

cache_vars == <<cache, clock, written, call>>
CacheIdle ==
    /\ cache = SkyblockCache(0)
    /\ clock = 0
    /\ written = NothingWritten
    /\ call = NoCall

\* _find_latest_profile has not been called.
NoLookup == [pc |-> "idle", profiles |-> <<>>, ret |-> 0]

\* _fetch_live_hypixel_streamers has not been called.
NoFetch == [pc |-> "idle"]

\* No rtca command is being answered.
NoSim == [pc |-> "idle"]

\* The state outside the level functions and the overflow command, and its
\* value while none of it is in use.
service_vars == <<tasks, loader, cache_vars, lookup, fetch, sim>>
ServicesIdle ==
    /\ tasks = NoTasks
    /\ loader = NoLoader
    /\ CacheIdle
    /\ lookup = NoLookup
    /\ fetch = NoFetch
    /\ sim = NoSim

Init ==
    /\ leveling_data \in LevelingDatas
    /\ fn = "idle"
    /\ xp = 0
    /\ skill_name = ""
    /\ member_data = NoMember
    /\ boss_key = ""
    /\ result = Float(0)
    /\ target_level = 0
    /\ provider = NoProvider
    /\ iters = NoIters
    /\ walk = NoWalk
    /\ ServicesIdle

CalcSkill ==
    /\ fn = "idle"
    /\ \E x \in XPs(leveling_data.xp_table), inp \in SkillInputs :
        /\ fn' = "skill"
        /\ xp' = x
        /\ skill_name' = inp[1]
        /\ member_data' = inp[2]
        /\ result' = calculate_skill_level(leveling_data, x, inp[1], inp[2])
    /\ UNCHANGED <<leveling_data, boss_key>>
    /\ UNCHANGED overflow_vars
    /\ UNCHANGED service_vars

CalcHotm ==
    /\ fn = "idle"
    /\ \E x \in XPs(leveling_data.hotm_brackets) :
        /\ fn' = "hotm"
        /\ xp' = x
        /\ result' = calculate_hotm_level(leveling_data, x)
    /\ UNCHANGED <<leveling_data, skill_name, member_data, boss_key>>
    /\ UNCHANGED overflow_vars
    /\ UNCHANGED service_vars

CalcDungeon ==
    /\ fn = "idle"
    /\ \E x \in XPs(leveling_data.catacombs_xp) :
        /\ fn' = "dungeon"
        /\ xp' = x
        /\ result' = calculate_dungeon_level(leveling_data, x)
    /\ UNCHANGED <<leveling_data, skill_name, member_data, boss_key>>
    /\ UNCHANGED overflow_vars
    /\ UNCHANGED service_vars

CalcClass ==
    /\ fn = "idle"
    /\ \E x \in XPs(leveling_data.catacombs_xp) :
        /\ fn' = "class"
        /\ xp' = x
        /\ result' = calculate_class_level(leveling_data, x)
    /\ UNCHANGED <<leveling_data, skill_name, member_data, boss_key>>
    /\ UNCHANGED overflow_vars
    /\ UNCHANGED service_vars

CalcSlayer ==
    /\ fn = "idle"
    /\ \E x \in XPs(leveling_data.xp_table), b \in BossKeys :
        /\ fn' = "slayer"
        /\ xp' = x
        /\ boss_key' = b
        /\ result' = calculate_slayer_level(leveling_data, x, b)
    /\ UNCHANGED <<leveling_data, skill_name, member_data>>
    /\ UNCHANGED overflow_vars
    /\ UNCHANGED service_vars

\* The handler has sent its reply; the next command starts from scratch.
Return ==
    /\ fn # "idle"
    /\ fn' = "idle"
    /\ xp' = 0
    /\ skill_name' = ""
    /\ member_data' = NoMember
    /\ boss_key' = ""
    /\ result' = Float(0)
    /\ UNCHANGED leveling_data
    /\ UNCHANGED overflow_vars
    /\ UNCHANGED service_vars

Next == CalcSkill \/ CalcHotm \/ CalcDungeon \/ CalcClass \/ CalcSlayer \/ Return

Spec == Init /\ [][Next]_vars

----------------------------------------------------------------------------
\* XPProvider (src/commands/overflow_skills.py).

\* Most terms taken from one iterator.
MaxTerms == 23

\* XPProvider.__init__: max_level None is <<>>, the integer m is <<m>>.
XPProvider(levels, max_level) == [levels |-> levels, max_level |-> max_level]

\* The frame of inner() before its first next(); the locals are unbound
\* until line 25, their 0 is never read.
GenStart ==
    [pc |-> "start", i |-> 0, current_xp |-> 0, current_slope |-> 0,
     current_level |-> 0]

\* How a next() on the generator ends: a yielded value, or an exception.
Yield(g, v) == [kind |-> "yield", value |-> v, gen |-> g]
Raise(g, exc) == [kind |-> exc, value |-> 0, gen |-> [g EXCEPT !.pc = "done"]]

\* Lines 25-28 and the first yield of line 30. levels[-1] and levels[-2]
\* raise IndexError on a list that short.
EnterLoop(levels, g) ==
    IF Len(levels) < 1 THEN Raise(g, "IndexError")
    ELSE IF Len(levels) < 2 THEN Raise(g, "IndexError")
    ELSE LET last == levels[Len(levels)]
             slope == (last - levels[Len(levels) - 1]) * 2
         IN Yield([g EXCEPT !.pc = "loop", !.current_xp = last + slope,
                            !.current_slope = slope,
                            !.current_level = Len(levels)],
                  last + slope)

\* Lines 31-33, then the yield of line 30: the value yielded is the one
\* computed before the slope is doubled.
LoopStepNoDoubling(g) ==
    LET level == g.current_level + 1
        cxp == g.current_xp + g.current_slope
    IN Yield([g EXCEPT !.current_level = level, !.current_xp = cxp], cxp)

LoopStep(g) ==
    LET level == g.current_level + 1
        cxp == g.current_xp + g.current_slope
        slope == IF level % 10 = 0 THEN g.current_slope * 2
                 ELSE g.current_slope
    IN Yield([g EXCEPT !.current_level = level, !.current_xp = cxp,
                       !.current_slope = slope],
             cxp)

\* One next() on inner(): lines 23-33. A generator that raised is finished,
\* another next() raises StopIteration.
GenNext(levels, g) ==
    CASE g.pc = "start" -> Yield([g EXCEPT !.pc = "levels"], 0)
      [] g.pc = "levels" ->
            IF g.i < Len(levels)
            THEN Yield([g EXCEPT !.i = g.i + 1], levels[g.i + 1])
            ELSE EnterLoop(levels, g)
      [] g.pc = "loop" -> LoopStep(g)
      [] g.pc = "done" -> Raise(g, "StopIteration")

\* Line 35: islice(inner(), self.max_level) when max_level is None, the bare
\* generator otherwise. stop is the second argument of islice.
xp_generator(p) ==
    IF p.max_level = <<>>
    THEN [wrap |-> "islice", stop |-> p.max_level, count |-> 0, gen |-> GenStart]
    ELSE [wrap |-> "inner", stop |-> <<>>, count |-> 0, gen |-> GenStart]

\* One next() on the iterator xp_generator() returned. islice stops after
\* stop items, never when stop is None.
IterNext(levels, it) ==
    IF it.wrap = "islice" /\ it.stop # <<>> /\ it.count >= it.stop[1]
    THEN [kind |-> "StopIteration", value |-> 0, it |-> it]
    ELSE LET r == GenNext(levels, it.gen)
         IN [kind |-> r.kind, value |-> r.value,
             it |-> [it EXCEPT !.gen = r.gen,
                               !.count = IF r.kind = "yield" THEN it.count + 1
                                         ELSE it.count]]

\* The providers built: line 55 passes leveling_data['xp_table'] and None;
\* the class also takes an integer max_level.
TenLevelTable == [i \in 1..10 |-> i]
ProviderTables == ShortTables \cup ScenarioTables \cup {TenLevelTable}
Providers ==
    {XPProvider(t, <<>>) : t \in ProviderTables}
        \cup {XPProvider(t, <<2>>) : t \in ScenarioTables \cup {TenLevelTable}}
IterNames == {"first", "second"}

\* An iterator with the terms it has yielded and how its last next() ended.
Started(p) == [it |-> xp_generator(p), yielded |-> <<>>, status |-> "yield"]

Advanced(p, e) ==
    LET r == IterNext(p.levels, e.it)
    IN [it |-> r.it,
        yielded |-> IF r.kind = "yield" THEN Append(e.yielded, r.value)
                    ELSE e.yielded,
        status |-> r.kind]

calc_vars == <<leveling_data, fn, xp, skill_name, member_data, boss_key, result>>

InitProvider ==
    /\ \E p \in Providers :
        /\ leveling_data = LevelingDataOf(p.levels, EmptyDict)
        /\ provider = p
    /\ fn = "idle"
    /\ xp = 0
    /\ skill_name = ""
    /\ member_data = NoMember
    /\ boss_key = ""
    /\ result = Float(0)
    /\ target_level = 0
    /\ iters = NoIters
    /\ walk = NoWalk
    /\ ServicesIdle

\* provider.xp_generator()
NewIterator(n) ==
    /\ n \notin DOMAIN iters
    /\ iters' = iters @@ (n :> Started(provider))
    /\ UNCHANGED <<calc_vars, target_level, provider, walk>>
    /\ UNCHANGED service_vars

\* next() on the iterator n; every other iterator resumes its own frame.
AdvanceShared(n) ==
    /\ n \in DOMAIN iters
    /\ iters[n].status # "StopIteration"
    /\ Len(iters[n].yielded) < MaxTerms
    /\ iters' = [m \in DOMAIN iters |->
                    IF m = n THEN Advanced(provider, iters[n])
                    ELSE [iters[m] EXCEPT !.it = Advanced(provider, iters[n]).it]]
    /\ UNCHANGED <<calc_vars, target_level, provider, walk>>
    /\ UNCHANGED service_vars

Advance(n) ==
    /\ n \in DOMAIN iters
    /\ iters[n].status # "StopIteration"
    /\ Len(iters[n].yielded) < MaxTerms
    /\ iters' = [iters EXCEPT ![n] = Advanced(provider, iters[n])]
    /\ UNCHANGED <<calc_vars, target_level, provider, walk>>
    /\ UNCHANGED service_vars

NextProvider == \E n \in IterNames : NewIterator(n) \/ Advance(n)

SpecProvider == InitProvider /\ [][NextProvider]_vars

----------------------------------------------------------------------------
\* The overflow walk of process_overflow_skill_command (lines 54-68), one
\* skill of the loop over AVERAGE_SKILLS_LIST at a time; the walk of
\* process_skill_level_command (skill_level.py lines 67-83) is the same code.

\* The XP of a skill, experience.get('SKILL_...') of line 57: a number as an
\* exact rational, or None where the profile has no such entry.
NoneXP == <<>>

\* Lines 57-60: the locals before the first term is taken.
WalkStart(p, x) ==
    [pc |-> "loop", total_xp |-> x, current_xp |-> x, achieved_level |-> 0,
     required_next_xp |-> 0, level |-> 0, it |-> xp_generator(p),
     decimal_level |-> Float(0), error |-> ""]

\* An exception leaves the command: nothing in it catches one.
WalkRaises(w, error) == [w EXCEPT !.pc = "raised", !.error = error]

\* Line 68, reached by the break of line 63 or by the end of the iterator.
\* None / required_next_xp is a TypeError.
DecimalLevel(w) ==
    IF w.required_next_xp > 0
    THEN IF w.current_xp = NoneXP THEN WalkRaises(w, "TypeError")
         ELSE [w EXCEPT !.pc = "done",
                        !.decimal_level =
                            Rat(w.achieved_level * w.required_next_xp * w.current_xp[2]
                                    + w.current_xp[1],
                                w.required_next_xp * w.current_xp[2])]
    ELSE [w EXCEPT !.pc = "done", !.decimal_level = Float(w.achieved_level)]

\* One turn of the for loop of line 60: next() on the iterator, then lines
\* 61-65. An IndexError of the generator is caught nowhere in the command,
\* nor is the TypeError of None < xp at line 61.
WalkTurnCountsTerm(levels, w) ==
    LET r == IterNext(levels, w.it)
        v == [w EXCEPT !.it = r.it]
    IN IF r.kind = "IndexError" THEN WalkRaises(v, "IndexError")
       ELSE IF r.kind = "StopIteration" THEN DecimalLevel(v)
       ELSE IF v.current_xp = NoneXP THEN WalkRaises(v, "TypeError")
       ELSE IF RatLT(v.current_xp, Float(r.value))
            THEN DecimalLevel([v EXCEPT !.required_next_xp = r.value])
            ELSE [v EXCEPT !.achieved_level = v.level + 1,
                           !.current_xp = RatMinus(v.current_xp, Float(r.value)),
                           !.level = v.level + 1]

WalkTurn(levels, w) ==
    LET r == IterNext(levels, w.it)
        v == [w EXCEPT !.it = r.it]
    IN IF r.kind = "IndexError" THEN WalkRaises(v, "IndexError")
       ELSE IF r.kind = "StopIteration" THEN DecimalLevel(v)
       ELSE IF v.current_xp = NoneXP THEN WalkRaises(v, "TypeError")
       ELSE IF RatLT(v.current_xp, Float(r.value))
            THEN DecimalLevel([v EXCEPT !.required_next_xp = r.value])
            ELSE [v EXCEPT !.achieved_level = v.level,
                           !.current_xp = RatMinus(v.current_xp, Float(r.value)),
                           !.level = v.level + 1]

\* The whole skill XP values tried against table t: those of the level
\* functions and values past the end of the table.
WholeXPs(t) ==
    (IF t \in ScenarioTables THEN ScenarioXPs ELSE -1 .. (PySum(t) + 1))
        \cup {PySum(t) + 2 * MaxDelta + 1, PySum(t) + 20 * MaxDelta, 3 * PySum(t)}

\* What experience.get('SKILL_...') gives for the profiles tried against
\* table t: the whole values, the values half an XP above them (the API
\* sends floats), and None for a profile without the skill.
OverflowXPs(t) ==
    {Float(x) : x \in WholeXPs(t)}
        \cup {Rat(2 * x + 1, 2) : x \in WholeXPs(t)}
        \cup {NoneXP}

OverflowLevelingDatas ==
    {LevelingDataOf(t, caps) : t \in ProviderTables, caps \in CapsMaps}

InitOverflow ==
    /\ leveling_data \in OverflowLevelingDatas
    /\ fn = "idle"
    /\ xp = 0
    /\ skill_name = ""
    /\ member_data = NoMember
    /\ boss_key = ""
    /\ result = Float(0)
    /\ target_level = 0
    /\ provider = NoProvider
    /\ iters = NoIters
    /\ walk = NoWalk
    /\ ServicesIdle

\* Lines 55-60 for one skill: the provider, the XP of the skill, the iterator.
StartWalk ==
    /\ walk.pc = "idle"
    /\ \E x \in OverflowXPs(leveling_data.xp_table) :
        /\ provider' = XPProvider(leveling_data.xp_table, <<>>)
        /\ walk' = WalkStart(provider', x)
    /\ UNCHANGED <<calc_vars, target_level, iters>>
    /\ UNCHANGED service_vars

\* One turn of the loop (lines 60-65), with line 68 when it is the last.
WalkStep ==
    /\ walk.pc = "loop"
    /\ walk.level < MaxTerms
    /\ walk' = WalkTurn(provider.levels, walk)
    /\ UNCHANGED <<calc_vars, target_level, provider, iters>>
    /\ UNCHANGED service_vars

\* Lines 71-74 use decimal_level and the loop goes on to the next skill, or
\* the exception ends the command.
EndWalk ==
    /\ walk.pc \in {"done", "raised"}
    /\ walk' = NoWalk
    /\ provider' = NoProvider
    /\ UNCHANGED <<calc_vars, target_level, iters>>
    /\ UNCHANGED service_vars

NextOverflow == StartWalk \/ WalkStep \/ EndWalk

SpecOverflow == InitOverflow /\ [][NextOverflow]_vars

----------------------------------------------------------------------------
\* _get_xp_for_target_level (src/calculations.py lines 5-32).

\* float('inf')
Inf == <<1, 0>>

_get_xp_for_target_level_exclusive(ld, target) ==
    IF ld.catacombs_xp = <<>> THEN Inf
    ELSE LET xp_table == ld.catacombs_xp
             target_level_index == target - 1
             max_index == Len(xp_table)
         IN IF target_level_index < 0 THEN Float(0)
            ELSE IF target_level_index >= max_index THEN Float(PySum(xp_table))
            ELSE Float(PySum(PySlice(xp_table, target_level_index)))

_get_xp_for_target_level(ld, target) ==
    IF ld.catacombs_xp = <<>> THEN Inf
    ELSE LET xp_table == ld.catacombs_xp
             target_level_index == target - 1
             max_index == Len(xp_table)
         IN IF target_level_index < 0 THEN Float(0)
            ELSE IF target_level_index >= max_index THEN Float(PySum(xp_table))
            ELSE Float(PySum(PySlice(xp_table, target_level_index + 1)))

\* The target levels asked for: around 0, inside the table, at its end and
\* past it.
TargetLevels(t) ==
    (-1 .. (MaxLen + 2)) \cup KeyLevels(t) \cup {Len(t) + d : d \in -1 .. 2}

InitTarget == Init

CalcTarget ==
    /\ fn = "idle"
    /\ \E target \in TargetLevels(leveling_data.catacombs_xp) :
        /\ fn' = "target"
        /\ target_level' = target
        /\ result' = _get_xp_for_target_level(leveling_data, target)
    /\ UNCHANGED <<leveling_data, xp, skill_name, member_data, boss_key,
                   provider, iters, walk>>
    /\ UNCHANGED service_vars

ReturnTarget ==
    /\ fn = "target"
    /\ fn' = "idle"
    /\ target_level' = 0
    /\ result' = Float(0)
    /\ UNCHANGED <<leveling_data, xp, skill_name, member_data, boss_key,
                   provider, iters, walk>>
    /\ UNCHANGED service_vars

NextTarget == CalcTarget \/ ReturnTarget

SpecTarget == InitTarget /\ [][NextTarget]_vars

----------------------------------------------------------------------------
\* Concurrent callers of the level functions and of XPProvider over the one
\* LevelingData of the bot (src/twitch.py line 67). A call is run one loop
\* turn at a time; every turn reads the shared tables again, as the list
\* iterator of a Python for loop does.

TaskNames == {"a", "b"}

\* The locals of a call: its arguments, the cap or length computed before
\* the loop (emax), the slice it made of the table (tbl, class level only),
\* the loop index and loop state, the iterator and the terms taken from it,
\* and the value returned.
Call(kind, x, name, md, boss) ==
    [kind |-> kind, pc |-> "loop", x |-> x, name |-> name, md |-> md,
     boss |-> boss, emax |-> 0, tbl |-> <<>>, i |-> 0, st |-> LoopStart,
     it |-> <<>>, yielded |-> <<>>, ret |-> Float(0)]

Returned(tk, value) == [tk EXCEPT !.pc = "done", !.ret = value]

\* The statements of a level function before its loop, or the call of
\* xp_generator().
Enter(ld, c) ==
    CASE c.kind = "skill" ->
            IF ld.xp_table = <<>> THEN Returned(c, Float(0))
            ELSE LET emax == effective_max_level(ld, c.name, c.md) IN
                 IF c.x >= PySum(PySlice(ld.xp_table, emax))
                 THEN Returned(c, Float(emax))
                 ELSE [c EXCEPT !.emax = emax]
      [] c.kind = "hotm" ->
            IF "hotm_brackets" \notin DOMAIN ld \/ ld.hotm_brackets = <<>>
            THEN Returned(c, Float(0))
            ELSE IF c.x >= PySum(ld.hotm_brackets)
            THEN Returned(c, Float(Len(ld.hotm_brackets)))
            ELSE c
      [] c.kind = "dungeon" ->
            IF ld.catacombs_xp = <<>> THEN Returned(c, Float(0))
            ELSE IF c.x >= PySum(ld.catacombs_xp)
            THEN Returned(c, Float(DungeonMaxLevel))
            ELSE [c EXCEPT !.emax = DungeonMaxLevel]
      [] c.kind = "class" ->
            IF ld.catacombs_xp = <<>> THEN Returned(c, Float(0))
            ELSE LET xp_table == PySlice(ld.catacombs_xp, MaxClassLevel) IN
                 IF c.x >= PySum(xp_table)
                 THEN Returned(c, Float(MaxClassLevel))
                 ELSE [c EXCEPT !.tbl = xp_table]
      [] c.kind = "slayer" ->
            IF "slayer_xp" \notin DOMAIN ld \/ c.boss \notin DOMAIN ld.slayer_xp
            THEN Returned(c, 0)
            ELSE [c EXCEPT !.emax = Len(ld.slayer_xp[c.boss])]
      [] c.kind = "iter" ->
            [c EXCEPT !.it = xp_generator(XPProvider(ld.xp_table, <<>>))]

\* The table a loop walks: the shared list, or the slice the call made.
WalkedTable(ld, tk) ==
    CASE tk.kind = "skill" -> ld.xp_table
      [] tk.kind = "hotm" -> ld.hotm_brackets
      [] tk.kind = "dungeon" -> ld.catacombs_xp
      [] tk.kind = "class" -> tk.tbl
      [] tk.kind = "slayer" -> ld.slayer_xp[tk.boss]

\* One turn of the loop at index i.
TurnOf(ld, tk) ==
    LET tbl == WalkedTable(ld, tk) IN
    CASE tk.kind = "skill" -> SkillStep(tbl, tk.x, tk.emax, tk.i, tk.st)
      [] tk.kind = "hotm" -> HotmStep(tbl, tk.x, tk.i, tk.st)
      [] tk.kind = "dungeon" -> DungeonStep(tbl, tk.x, tk.emax, tk.i, tk.st)
      [] tk.kind = "class" -> ClassStep(tbl, tk.x, tk.i, tk.st)
      [] tk.kind = "slayer" -> SlayerStep(tbl, tk.x, tk.i, tk.st)

\* The return after the loop has run out.
AfterLoop(tk) ==
    CASE tk.kind = "skill" -> RatMin(Float(tk.st.level), Float(tk.emax))
      [] tk.kind = "slayer" -> tk.st.level
      [] OTHER -> Float(tk.st.level)

\* Terms a concurrent consumer takes from its iterator.
TermsTaken(ld) == Len(ld.xp_table) + 3

\* One step of a call in progress: a loop turn, the return after the loop,
\* or a next() on the iterator.
Turn(ld, tk) ==
    IF tk.kind = "iter"
    THEN LET r == IterNext(ld.xp_table, tk.it) IN
         IF r.kind # "yield" THEN Returned([tk EXCEPT !.it = r.it], <<r.kind>>)
         ELSE IF Len(tk.yielded) + 1 >= TermsTaken(ld)
         THEN Returned([tk EXCEPT !.it = r.it,
                                  !.yielded = Append(tk.yielded, r.value)],
                       <<"taken">>)
         ELSE [tk EXCEPT !.it = r.it, !.yielded = Append(tk.yielded, r.value)]
    ELSE IF tk.i >= (IF tk.kind = "slayer" THEN tk.emax
                     ELSE Len(WalkedTable(ld, tk)))
    THEN Returned(tk, AfterLoop(tk))
    ELSE LET st == TurnOf(ld, tk) IN
         IF st.done
         THEN Returned([tk EXCEPT !.st = st],
                       IF tk.kind = "slayer" THEN st.level ELSE st.ret)
         ELSE [tk EXCEPT !.st = st, !.i = tk.i + 1]

\* The tables and arguments of the concurrent calls.
ConcurrentTables == {<<>>, <<1, 0, 2>>} \cup ScenarioTables
ConcurrentLevelingDatas ==
    {LevelingDataOf(t, caps) : t \in ConcurrentTables, caps \in CapsMaps}
Calls(ld) ==
    {Call(k[1], x, k[2], k[3], k[4]) :
        x \in XPs(ld.xp_table),
        k \in {<<"skill", "mining", NoMember, "">>,
               <<"skill", "taming", Member(3, 0), "">>,
               <<"hotm", "", NoMember, "">>,
               <<"dungeon", "", NoMember, "">>,
               <<"class", "", NoMember, "">>,
               <<"slayer", "", NoMember, "zombie">>,
               <<"slayer", "", NoMember, "spider">>}}
        \cup {Call("iter", 0, "", NoMember, "")}

InitConcurrent ==
    /\ leveling_data \in ConcurrentLevelingDatas
    /\ fn = "idle"
    /\ xp = 0
    /\ skill_name = ""
    /\ member_data = NoMember
    /\ boss_key = ""
    /\ result = Float(0)
    /\ target_level = 0
    /\ provider = NoProvider
    /\ iters = NoIters
    /\ walk = NoWalk
    /\ ServicesIdle

\* Task t calls a level function or xp_generator().
TaskCall(t) ==
    /\ t \notin DOMAIN tasks
    /\ \E c \in Calls(leveling_data) :
           tasks' = tasks @@ (t :> Enter(leveling_data, c))
    /\ UNCHANGED <<calc_vars, overflow_vars, loader, cache_vars, lookup, fetch, sim>>

\* Task t runs one step of its call. The variant removes the entry it read
\* from the shared skill table.
TaskTurnConsuming(t) ==
    /\ t \in DOMAIN tasks
    /\ tasks[t].pc = "loop"
    /\ tasks' = [tasks EXCEPT ![t] = Turn(leveling_data, tasks[t])]
    /\ leveling_data' =
           IF tasks[t].kind = "skill" /\ leveling_data.xp_table # <<>>
           THEN [leveling_data EXCEPT !.xp_table = Tail(leveling_data.xp_table)]
           ELSE leveling_data
    /\ UNCHANGED <<fn, xp, skill_name, member_data, boss_key, result,
                   overflow_vars, loader, cache_vars, lookup, fetch, sim>>

TaskTurn(t) ==
    /\ t \in DOMAIN tasks
    /\ tasks[t].pc = "loop"
    /\ tasks' = [tasks EXCEPT ![t] = Turn(leveling_data, tasks[t])]
    /\ UNCHANGED <<calc_vars, overflow_vars, loader, cache_vars, lookup, fetch, sim>>

\* The caller of task t has its value.
TaskReturn(t) ==
    /\ t \in DOMAIN tasks
    /\ tasks[t].pc = "done"
    /\ tasks' = [u \in DOMAIN tasks \ {t} |-> tasks[u]]
    /\ UNCHANGED <<calc_vars, overflow_vars, loader, cache_vars, lookup, fetch, sim>>

NextConcurrent ==
    \E t \in TaskNames : TaskCall(t) \/ TaskTurn(t) \/ TaskReturn(t)

SpecConcurrent == InitConcurrent /\ [][NextConcurrent]_vars

----------------------------------------------------------------------------
\* _load_leveling_data (src/utils.py lines 20-41).

\* The entries of LevelingData and the field of leveling.json each is read
\* from.
Entries == {"xp_table", "level_caps", "catacombs_xp", "hotm_brackets", "slayer_xp"}
FieldOf ==
    [xp_table |-> "leveling_xp", level_caps |-> "leveling_caps",
     catacombs_xp |-> "catacombs", hotm_brackets |-> "HOTM",
     slayer_xp |-> "slayer_xp"]
Fields == {FieldOf[e] : e \in Entries}

\* The five empty tables and maps of lines 34, 37 and 41.
EmptyLevelingData ==
    [xp_table |-> <<>>, level_caps |-> EmptyDict, catacombs_xp |-> <<>>,
     hotm_brackets |-> <<>>, slayer_xp |-> EmptyDict]

\* What leveling.json can be: missing, not readable, not JSON, or a JSON
\* document: an object with some of the fields, each holding a value or
\* null, or a value that is not an object.
JsonObjects == UNION {[S -> {"value", "null"}] : S \in SUBSET Fields}

\* The value of field f in a document: what the bot's file holds there, or
\* JSON null (None).
JsonValue(f, k) ==
    IF k = "null" THEN "None"
    ELSE IF f = "leveling_caps" THEN [mining |-> 2]
    ELSE IF f = "slayer_xp" THEN [zombie |-> <<1, 2>>]
    ELSE <<1, 2>>

Files ==
    {[kind |-> "missing"], [kind |-> "unreadable"], [kind |-> "not_json"]}
        \cup {[kind |-> "json", is_object |-> TRUE, doc |-> d] : d \in JsonObjects}
        \cup {[kind |-> "json", is_object |-> FALSE, doc |-> EmptyDict]}

\* Lines 23-24: open() and json.load(), then data.get on the document; the
\* exception raised, "" when none is.
LoadError(file) ==
    CASE file.kind = "missing" -> "FileNotFoundError"
      [] file.kind = "unreadable" -> "PermissionError"
      [] file.kind = "not_json" -> "JSONDecodeError"
      [] file.kind = "json" /\ ~file.is_object -> "AttributeError"
      [] OTHER -> ""

\* Lines 25-31.
LoadedFrom(doc) ==
    [e \in Entries |->
        IF FieldOf[e] \in DOMAIN doc THEN JsonValue(FieldOf[e], doc[FieldOf[e]])
        ELSE <<>>]

\* A variant without the last except clause (lines 38-41).
_load_leveling_data_two_handlers(file) ==
    LET exc == LoadError(file) IN
    IF exc = "" THEN [outcome |-> "return", value |-> LoadedFrom(file.doc)]
    ELSE IF exc \in {"FileNotFoundError", "JSONDecodeError"}
    THEN [outcome |-> "return", value |-> EmptyLevelingData]
    ELSE [outcome |-> exc, value |-> EmptyLevelingData]

\* Lines 22-41: every exception is caught by one of the three handlers.
_load_leveling_data(file) ==
    LET exc == LoadError(file) IN
    IF exc = "" THEN [outcome |-> "return", value |-> LoadedFrom(file.doc)]
    ELSE IF exc = "FileNotFoundError"
    THEN [outcome |-> "return", value |-> EmptyLevelingData]
    ELSE IF exc = "JSONDecodeError"
    THEN [outcome |-> "return", value |-> EmptyLevelingData]
    ELSE [outcome |-> "return", value |-> EmptyLevelingData]

\* Before Bot.__init__ there is no leveling data; the variable holds the
\* empty tables until the loader has returned.
InitLoad ==
    /\ leveling_data = EmptyLevelingData
    /\ fn = "idle"
    /\ xp = 0
    /\ skill_name = ""
    /\ member_data = NoMember
    /\ boss_key = ""
    /\ result = Float(0)
    /\ target_level = 0
    /\ provider = NoProvider
    /\ iters = NoIters
    /\ walk = NoWalk
    /\ ServicesIdle

\* The bot starts in a directory with some leveling.json, or none.
FindFile ==
    /\ loader.pc = "start"
    /\ \E file \in Files : loader' = [loader EXCEPT !.pc = "found", !.file = file]
    /\ UNCHANGED <<calc_vars, overflow_vars, tasks, cache_vars, lookup, fetch, sim>>

\* twitch.py line 67: self.leveling_data = utils._load_leveling_data()
Load ==
    /\ loader.pc = "found"
    /\ LET r == _load_leveling_data(loader.file) IN
        /\ loader' = [loader EXCEPT !.pc = "loaded", !.outcome = r.outcome]
        /\ leveling_data' = IF r.outcome = "return" THEN r.value ELSE leveling_data
    /\ UNCHANGED <<fn, xp, skill_name, member_data, boss_key, result,
                   overflow_vars, tasks, cache_vars, lookup, fetch, sim>>

NextLoad == FindFile \/ Load

SpecLoad == InitLoad /\ [][NextLoad]_vars

----------------------------------------------------------------------------
\* The TTL cache of src/cache.py. A Cache is its dict and its ttl; an entry of
\* the dict is <<value, timestamp>>; every method reads time.time() once.

\* Largest value of time.time() enumerated.
MaxTime == 3
\* Largest ttl a cache is constructed with.
MaxTtl == 2

Usernames == {"alice", "bob"}
Uuids == {"u1", "u2"}
ProfileDatas == {"profiles"}

\* The dict d with key bound to e (d[key] = e).
DictSet(d, key, e) ==
    [k \in DOMAIN d \cup {key} |-> IF k = key THEN e ELSE d[k]]

\* The dict d without the keys of S (d.pop(key, None), del d[key]).
DictWithout(d, S) == [k \in DOMAIN d \ S |-> d[k]]

\* Cache.get (lines 16-31) with an entry that is still visible at the moment
\* it is exactly ttl old.
get_inclusive(self, key, current_time) ==
    IF key \in DOMAIN self.cache
    THEN LET value == self.cache[key][1]
             timestamp == self.cache[key][2]
         IN  IF current_time - timestamp <= self.ttl THEN value ELSE None
    ELSE None

\* Cache.get (lines 16-31). An expired entry stays in the dict.
get(self, key, current_time) ==
    IF key \in DOMAIN self.cache
    THEN LET value == self.cache[key][1]
             timestamp == self.cache[key][2]
         IN  IF current_time - timestamp < self.ttl THEN value ELSE None
    ELSE None

\* Cache.set (lines 33-36).
set(self, key, value, now) ==
    [self EXCEPT !.cache = DictSet(self.cache, key, <<value, now>>)]

\* Cache.delete (lines 38-46): the cache after the call and what it returns.
delete(self, key) ==
    IF key \in DOMAIN self.cache
    THEN [self |-> [self EXCEPT !.cache = DictWithout(self.cache, {key})],
          ret |-> "True"]
    ELSE [self |-> self, ret |-> "False"]

\* Cache.clear (lines 48-51).
clear(self) == [self EXCEPT !.cache = EmptyDict]

\* Cache.cleanup_expired (lines 53-67): the cache after the call and the
\* number of entries removed, which it returns.
cleanup_expired(self, current_time) ==
    LET expired_keys == {key \in DOMAIN self.cache :
                             current_time - self.cache[key][2] >= self.ttl}
    IN  [self |-> [self EXCEPT !.cache = DictWithout(self.cache, expired_keys)],
         ret |-> Cardinality(expired_keys)]

\* Python's truth value of a cached value: None and "" are false.
TruthyValue(v) == v # None /\ v # ""

\* SkyblockCache.get_uuid (lines 87-89), get_skyblock_data (lines 95-97).
get_uuid(self, username, now) == get(self.uuid_cache, username, now)
get_skyblock_data(self, uuid, now) == get(self.skyblock_data_cache, uuid, now)

\* SkyblockCache.set_uuid (lines 91-93), set_skyblock_data (lines 99-101).
set_uuid(self, username, uuid, now) ==
    [self EXCEPT !.uuid_cache = set(self.uuid_cache, username, uuid, now)]
set_skyblock_data(self, uuid, data, now) ==
    [self EXCEPT !.skyblock_data_cache =
                     set(self.skyblock_data_cache, uuid, data, now)]

\* SkyblockCache.invalidate_player (lines 103-115).
invalidate_player(self, username, now) ==
    LET uuid == get_uuid(self, username, now)
        s1 == [self EXCEPT !.uuid_cache = delete(self.uuid_cache, username).self]
    IN  IF TruthyValue(uuid)
        THEN [s1 EXCEPT !.skyblock_data_cache =
                            delete(self.skyblock_data_cache, uuid).self]
        ELSE s1

\* SkyblockCache.clear_all (lines 117-121).
clear_all(self) ==
    [uuid_cache |-> clear(self.uuid_cache),
     skyblock_data_cache |-> clear(self.skyblock_data_cache)]

\* SkyblockCache.cleanup_expired (lines 123-128): the two caches after the
\* call and the tuple (uuid_count, skyblock_count) it returns. Each of the
\* two Cache.cleanup_expired calls reads time.time() itself (line 55):
\* uuid_time at line 125, skyblock_time at line 126.
SkyblockCache_cleanup_expired(self, uuid_time, skyblock_time) ==
    LET uuid == cleanup_expired(self.uuid_cache, uuid_time)
        skyblock == cleanup_expired(self.skyblock_data_cache, skyblock_time)
    IN  [self |-> [uuid_cache |-> uuid.self, skyblock_data_cache |-> skyblock.self],
         ret |-> <<uuid.ret, skyblock.ret>>]

\* The two Cache objects of a SkyblockCache, with the keys and the values
\* its methods put into each.
CacheNames == {"uuid_cache", "skyblock_data_cache"}
KeysOf(c) == IF c = "uuid_cache" THEN Usernames ELSE Uuids
ValuesOf(c) == IF c = "uuid_cache" THEN Uuids ELSE ProfileDatas

\* The value the last set() of key left in Cache c, None once deleted or
\* cleared, and the time of that set().
WrittenValue(c, key) ==
    IF key \in DOMAIN written[c] THEN written[c][key][1] ELSE None
WrittenTime(c, key) == written[c][key][2]

InitCache ==
    /\ leveling_data = EmptyLevelingData
    /\ fn = "idle"
    /\ xp = 0
    /\ skill_name = ""
    /\ member_data = NoMember
    /\ boss_key = ""
    /\ result = Float(0)
    /\ target_level = 0
    /\ provider = NoProvider
    /\ iters = NoIters
    /\ walk = NoWalk
    /\ tasks = NoTasks
    /\ loader = NoLoader
    /\ \E ttl \in 1..MaxTtl : cache = SkyblockCache(ttl)
    /\ clock = 0
    /\ written = NothingWritten
    /\ call = NoCall
    /\ lookup = NoLookup
    /\ fetch = NoFetch
    /\ sim = NoSim

cache_frame == <<calc_vars, overflow_vars, tasks, loader, lookup, fetch, sim>>

\* Time passes.
Tick ==
    /\ clock < MaxTime
    /\ clock' = clock + 1
    /\ UNCHANGED <<cache, written, call, cache_frame>>

\* A get() on one of the two caches: get_uuid, get_skyblock_data.
Get(c, key) ==
    /\ call' = [op |-> "get", cache |-> c, key |-> key, time |-> clock,
                ret |-> get(cache[c], key, clock), stored |-> None]
    /\ UNCHANGED <<cache, clock, written, cache_frame>>

\* A set() on one of the two caches: set_uuid, set_skyblock_data.
Set(c, key, value) ==
    /\ cache' = [cache EXCEPT ![c] = set(cache[c], key, value, clock)]
    /\ written' = [written EXCEPT ![c] = DictSet(written[c], key, <<value, clock>>)]
    /\ call' = [op |-> "set", cache |-> c, key |-> key, time |-> clock,
                ret |-> None, stored |-> None]
    /\ UNCHANGED <<clock, cache_frame>>

\* A delete() on one of the two caches.
Delete(c, key) ==
    /\ cache' = [cache EXCEPT ![c] = delete(cache[c], key).self]
    /\ written' = [written EXCEPT ![c] = DictWithout(written[c], {key})]
    /\ call' = [op |-> "delete", cache |-> c, key |-> key, time |-> clock,
                ret |-> delete(cache[c], key).ret, stored |-> None]
    /\ UNCHANGED <<clock, cache_frame>>

\* invalidate_player(username). The history loses what the call asked the
\* caches to delete; stored is the UUID last set for the username.
InvalidatePlayer(username) ==
    LET uuid == get_uuid(cache, username, clock) IN
    /\ cache' = invalidate_player(cache, username, clock)
    /\ written' =
           [uuid_cache |-> DictWithout(written.uuid_cache, {username}),
            skyblock_data_cache |->
                IF TruthyValue(uuid)
                THEN DictWithout(written.skyblock_data_cache, {uuid})
                ELSE written.skyblock_data_cache]
    /\ call' = [op |-> "invalidate_player", cache |-> "", key |-> username,
                time |-> clock, ret |-> None,
                stored |-> WrittenValue("uuid_cache", username)]
    /\ UNCHANGED <<clock, cache_frame>>

\* clear_all(): clear() on both caches.
ClearAll ==
    /\ cache' = clear_all(cache)
    /\ written' = NothingWritten
    /\ call' = [op |-> "clear_all", cache |-> "", key |-> "", time |-> clock,
                ret |-> None, stored |-> None]
    /\ UNCHANGED <<clock, cache_frame>>

\* cleanup_expired() of the SkyblockCache. The uuid cache is cleaned at the
\* time of the call and the data cache at the same or a later time, the
\* second reading of time.time(), where the call leaves the clock. The
\* history of set() calls keeps the entries the call removes.
CleanupExpired ==
    \E skyblock_time \in clock..MaxTime :
        LET r == SkyblockCache_cleanup_expired(cache, clock, skyblock_time) IN
        /\ cache' = r.self
        /\ clock' = skyblock_time
        /\ call' = [op |-> "cleanup_expired", cache |-> "", key |-> "",
                    time |-> clock, ret |-> r.ret, stored |-> None]
        /\ UNCHANGED <<written, cache_frame>>

NextCache ==
    \/ Tick
    \/ \E c \in CacheNames : \E key \in KeysOf(c) : Get(c, key)
    \/ \E c \in CacheNames : \E key \in KeysOf(c) : \E value \in ValuesOf(c) :
           Set(c, key, value)
    \/ \E c \in CacheNames : \E key \in KeysOf(c) : Delete(c, key)
    \/ \E username \in Usernames : InvalidatePlayer(username)
    \/ ClearAll
    \/ CleanupExpired

SpecCache == InitCache /\ [][NextCache]_vars

----------------------------------------------------------------------------
\* _find_latest_profile (src/utils.py lines 44-76). A profile is what the
\* function reads of it: its 'selected' flag (a missing one reads as False),
\* and the entry of player_uuid in its 'members': absent, the empty dict, or
\* a dict with other fields; last_save is <<>> where that dict has no
\* 'last_save' and <<n>> where it has. A profile is named by its place in the
\* list, and 0 stands for None.

\* Longest list of profiles.
MaxProfiles == 2
\* Largest last_save.
MaxSave == 2

ProfileShapes ==
    [selected : BOOLEAN, member : {"absent", "empty"}, last_save : {<<>>}]
    \cup [selected : BOOLEAN, member : {"dict"},
          last_save : {<<>>} \cup {<<n>> : n \in 0..MaxSave}]

ProfileLists == UNION {[1..n -> ProfileShapes] : n \in 0..MaxProfiles}

\* player_uuid in profile.get('members', {})
IsMember(profile) == profile.member # "absent"

\* member_data.get('last_save', 0)
LastSaveOf(profile) ==
    IF profile.last_save = <<>> THEN 0 ELSE profile.last_save[1]

\* The loop of lines 61-69 from profile i on, with the locals latest_profile
\* and latest_save: the value of latest_profile after it.
RECURSIVE LatestLoop(_, _, _, _)
LatestLoop(profiles, i, latest_profile, latest_save) ==
    IF i > Len(profiles) THEN latest_profile
    ELSE IF /\ profiles[i].member = "dict"
            /\ LastSaveOf(profiles[i]) > latest_save
         THEN LatestLoop(profiles, i + 1, i, LastSaveOf(profiles[i]))
         ELSE LatestLoop(profiles, i + 1, latest_profile, latest_save)

_find_latest_profile(profiles) ==
    IF profiles = <<>> THEN 0
    ELSE LET selected == {i \in 1..Len(profiles) :
                              profiles[i].selected /\ IsMember(profiles[i])}
         IN  IF selected # {}
             THEN CHOOSE i \in selected : \A j \in selected : i <= j
             ELSE LatestLoop(profiles, 1, 0, 0)

InitLookup == InitLoad

lookup_frame == <<calc_vars, overflow_vars, tasks, loader, cache_vars, fetch, sim>>

\* _select_profile (src/twitch.py line 50) has the profiles of a player.
CallLookup ==
    /\ lookup.pc = "idle"
    /\ \E profiles \in ProfileLists :
           lookup' = [pc |-> "called", profiles |-> profiles, ret |-> 0]
    /\ UNCHANGED lookup_frame

FindLatestProfile ==
    /\ lookup.pc = "called"
    /\ lookup' = [lookup EXCEPT !.pc = "returned",
                                !.ret = _find_latest_profile(lookup.profiles)]
    /\ UNCHANGED lookup_frame

NextLookup == CallLookup \/ FindLatestProfile

SpecLookup == InitLookup /\ [][NextLookup]_vars

----------------------------------------------------------------------------
\* Bot._fetch_live_hypixel_streamers (src/twitch.py lines 1547-1607). The
\* Twitch API answers every request; which answer it gives is its choice. A
\* cursor is the number of the page it points at, 0 for none; the API has at
\* most MaxPages pages. A stream is its title and its user_name.

\* Most pages of the stream list.
MaxPages == 3
\* Most streams on one page.
MaxStreams == 2

Titles == {"Hypixel SkyBlock", "Minecraft"}
UserNames == {"", "Alice", "alice", "bob"}
Streams == [title : Titles, user_name : UserNames]
Pages == UNION {[1..n -> Streams] : n \in 0..MaxStreams}

\* str.lower() on the strings above.
Lower(s) ==
    CASE s = "Alice" -> "alice"
      [] s = "Hypixel SkyBlock" -> "hypixel skyblock"
      [] s = "Minecraft" -> "minecraft"
      [] OTHER -> s

\* Line 1580: "hypixel" and one of the SkyBlock spellings are in the
\* lowered title.
TitleMatches(title_lower) == title_lower = "hypixel skyblock"

\* The loop of lines 1578-1583 over the streams of one page.
RECURSIVE CollectUsernames(_, _)
CollectUsernames(streams, live_streamer_usernames) ==
    IF streams = <<>> THEN live_streamer_usernames
    ELSE LET stream == Head(streams)
             username == Lower(stream.user_name)
         IN  CollectUsernames(Tail(streams),
                 IF TitleMatches(Lower(stream.title)) /\ username # ""
                 THEN Append(live_streamer_usernames, username)
                 ELSE live_streamer_usernames)

\* set(live_streamer_usernames) of line 1602.
SetOf(list) == {list[i] : i \in 1..Len(list)}

\* return None, return list(set(live_streamer_usernames)).
ReturnNone(f) == [f EXCEPT !.pc = "returned", !.outcome = "None"]
ReturnList(f) ==
    [f EXCEPT !.pc = "returned", !.outcome = "list",
              !.ret = SetOf(f.live_streamer_usernames)]

\* The page a request with this cursor asks for.
PageOf(cursor) == IF cursor = 0 THEN 1 ELSE cursor

InitFetch == InitLoad

fetch_frame == <<calc_vars, overflow_vars, tasks, loader, cache_vars, lookup, sim>>

\* Lines 1549-1554: the credentials of the environment, there or not.
StartFetch ==
    /\ fetch.pc = "idle"
    /\ \E credentials \in BOOLEAN :
           LET f == [pc |-> "token", cursor |-> 0,
                     live_streamer_usernames |-> <<>>,
                     outcome |-> "", ret |-> {}]
           IN  fetch' = IF credentials THEN f ELSE ReturnNone(f)
    /\ UNCHANGED fetch_frame

\* Lines 1556-1564: _get_twitch_access_token answers with a token or None.
FirstToken ==
    /\ fetch.pc = "token"
    /\ \E access_token \in BOOLEAN :
           fetch' = IF access_token THEN [fetch EXCEPT !.pc = "request"]
                    ELSE ReturnNone(fetch)
    /\ UNCHANGED fetch_frame

\* Line 1574: the request is answered with status 200; the coroutine now
\* awaits the body (line 1575).
Status200 ==
    /\ fetch.pc = "request"
    /\ fetch' = [fetch EXCEPT !.pc = "json"]
    /\ UNCHANGED fetch_frame

\* Lines 1575-1587: the body arrives, a page of streams and the next cursor.
\* The page after the last one does not exist.
JsonBody ==
    /\ fetch.pc = "json"
    /\ \E streams \in Pages :
       \E cursor \in {0} \cup ({PageOf(fetch.cursor) + 1} \cap 1..MaxPages) :
           LET f == [fetch EXCEPT
                        !.pc = "request",
                        !.live_streamer_usernames =
                            CollectUsernames(streams, fetch.live_streamer_usernames),
                        !.cursor = cursor]
           IN  fetch' = IF cursor = 0 THEN ReturnList(f) ELSE f
    /\ UNCHANGED fetch_frame

\* Lines 1588-1590: status 401, the token is asked for again.
Status401 ==
    /\ fetch.pc = "request"
    /\ fetch' = [fetch EXCEPT !.pc = "refresh"]
    /\ UNCHANGED fetch_frame

\* Lines 1590-1595: the answer to the refresh; the loop goes on with the
\* same cursor.
TokenRefreshed ==
    /\ fetch.pc = "refresh"
    /\ \E access_token \in BOOLEAN :
           fetch' = IF access_token THEN [fetch EXCEPT !.pc = "request"]
                    ELSE ReturnNone(fetch)
    /\ UNCHANGED fetch_frame

\* Lines 1596-1597: any other status; the coroutine now awaits the text of
\* the answer for its log line.
OtherStatus ==
    /\ fetch.pc = "request"
    /\ fetch' = [fetch EXCEPT !.pc = "text"]
    /\ UNCHANGED fetch_frame

\* Lines 1597-1602: the text arrives, the pagination ends with what the
\* earlier pages gave.
TextBody ==
    /\ fetch.pc = "text"
    /\ fetch' = ReturnList(fetch)
    /\ UNCHANGED fetch_frame

\* Lines 1604-1607: the request, or the read of a body, raises.
RequestRaises ==
    /\ fetch.pc \in {"request", "json", "text"}
    /\ fetch' = ReturnNone(fetch)
    /\ UNCHANGED fetch_frame

NextFetch ==
    \/ StartFetch
    \/ FirstToken
    \/ Status200
    \/ JsonBody
    \/ Status401
    \/ TokenRefreshed
    \/ OtherStatus
    \/ TextBody
    \/ RequestRaises

SpecFetch == InitFetch /\ [][NextFetch]_vars

\* Every request is answered and the coroutine is resumed after each answer.
SpecFetchFair == SpecFetch /\ WF_vars(NextFetch)

----------------------------------------------------------------------------
\* The run simulation of the rtca command (src/commands/rtca.py lines
\* 166-229; Bot.rtca_command in src/twitch.py lines 1147-1215 is the same
\* code). XP needs are floats, kept as exact rationals, Inf included.

BASE_M6_CLASS_XP == 105000
BASE_M7_CLASS_XP == 340000
MaxIterations == 100000

\* constants.CLASS_NAMES, in the order the dicts are filled and walked.
CLASS_NAMES == <<"healer", "mage", "berserk", "archer", "tank">>
ClassSet == {CLASS_NAMES[i] : i \in 1..Len(CLASS_NAMES)}

\* Lines 147-155: xp_per_run of the floor, times 1.06.
XpPerRun(floor_str) ==
    IF floor_str = "m6" THEN (BASE_M6_CLASS_XP * 106) \div 100
    ELSE (BASE_M7_CLASS_XP * 106) \div 100

\* The passive gain of an M6 run, the unit of the enumerated XP values.
Quarter == XpPerRun("m6") \div 4

\* Largest entry of an enumerated Catacombs table, in quarters.
MaxQuarters == 5
\* Largest class XP of a player, in quarters.
MaxClassQuarters == 2

SimTables ==
    {<<>>}
    \cup {<<a * Quarter>> : a \in 1..MaxQuarters}
    \cup {<<a * Quarter, b * Quarter>> : a \in 1..MaxQuarters, b \in 1..MaxQuarters}

\* What lines 119-164 hand to the simulation: the class XP of the player,
\* the target level and the floor.
SimInputs ==
    [class_xps : [ClassSet -> {q * Quarter : q \in 0..MaxClassQuarters}],
     target_level : 1..2, floor_str : {"m6", "m7"}]

\* a - b on floats: inf - b is inf.
FloatMinus(a, b) ==
    IF a = Inf THEN Inf ELSE Rat(a[1] * b[2] - b[1] * a[2], a[2] * b[2])

\* math.ceil(needed / active_gain) for a finite needed.
CeilOfQuotient(needed, gain) ==
    -((-(needed[1] * gain[2])) \div (needed[2] * gain[1]))

\* The classes of dict d in the order of its keys (the order of CLASS_NAMES).
KeysInOrder(d) == SelectSeq(CLASS_NAMES, LAMBDA c : c \in DOMAIN d)

\* Lines 171-182: the need of every class below the target level.
InitialNeeds(ld, class_xps, target) ==
    LET xp_required_for_target_level == _get_xp_for_target_level(ld, target)
        Needed(c) == FloatMinus(xp_required_for_target_level, Float(class_xps[c]))
        in_need == {c \in ClassSet :
                        /\ RatLT(calculate_class_level(ld, class_xps[c]), Float(target))
                        /\ RatLT(Float(0), Needed(c))}
    IN  [c \in in_need |-> Needed(c)]

\* Lines 199-208: the first class with the greatest runs_if_active.
Bottleneck(xp_needed_dict, active_gain) ==
    LET runs(c) == CeilOfQuotient(xp_needed_dict[c], active_gain)
        keys == KeysInOrder(xp_needed_dict)
        first == CHOOSE i \in 1..Len(keys) :
                     /\ \A j \in 1..Len(keys) : runs(keys[j]) <= runs(keys[i])
                     /\ \A j \in 1..(i - 1) : runs(keys[j]) < runs(keys[i])
    IN  keys[first]

\* Lines 216-223: the needs after the run.
NextNeeds(xp_needed_dict, bottleneck_class, active_gain, passive_gain) ==
    LET Remaining(c) ==
            FloatMinus(xp_needed_dict[c],
                       IF c = bottleneck_class THEN active_gain ELSE passive_gain)
    IN  [c \in {k \in DOMAIN xp_needed_dict : RatLT(Float(0), Remaining(k))}
            |-> Remaining(c)]

\* The bot has loaded its leveling data (twitch.py line 67) before it takes
\* a command; the simulation reads the Catacombs table of it.
InitSim ==
    /\ \E catacombs_xp \in SimTables :
           leveling_data = [EmptyLevelingData EXCEPT !.catacombs_xp = catacombs_xp]
    /\ fn = "idle"
    /\ xp = 0
    /\ skill_name = ""
    /\ member_data = NoMember
    /\ boss_key = ""
    /\ result = Float(0)
    /\ target_level = 0
    /\ provider = NoProvider
    /\ iters = NoIters
    /\ walk = NoWalk
    /\ ServicesIdle

sim_frame == <<fn, xp, skill_name, member_data, boss_key, result, overflow_vars,
               tasks, loader, cache_vars, lookup, fetch>>

\* Lines 166-193: the command reaches the simulation and sets up its locals.
StartSim ==
    /\ sim.pc = "idle"
    /\ \E in \in SimInputs :
           LET xp_needed_dict ==
                   InitialNeeds(leveling_data, in.class_xps, in.target_level)
               xp_per_run == XpPerRun(in.floor_str)
           IN  /\ sim' = [pc |-> IF xp_needed_dict = EmptyDict THEN "met" ELSE "loop",
                          xp_needed_dict |-> xp_needed_dict,
                          active_runs_per_class |-> [c \in ClassSet |-> 0],
                          total_runs_simulated |-> 0,
                          iteration |-> 0,
                          active_gain |-> Float(xp_per_run),
                          passive_gain |-> Rat(xp_per_run, 4),
                          bottleneck_class |-> "",
                          class_xps |-> in.class_xps,
                          target_level |-> in.target_level,
                          floor_str |-> in.floor_str]
    /\ UNCHANGED <<leveling_data, sim_frame>>

\* Lines 195-224: one turn of the while loop and its next test. math.ceil
\* raises OverflowError on inf, after the two counters of lines 196-197.
SimIteration ==
    /\ sim.pc = "loop"
    /\ LET counted == [sim EXCEPT !.iteration = @ + 1,
                                  !.total_runs_simulated = @ + 1]
       IN  IF \E c \in DOMAIN sim.xp_needed_dict : sim.xp_needed_dict[c] = Inf
           THEN sim' = [counted EXCEPT !.pc = "raised"]
           ELSE LET bottleneck_class == Bottleneck(sim.xp_needed_dict, sim.active_gain)
                    next_xp_needed == NextNeeds(sim.xp_needed_dict, bottleneck_class,
                                                sim.active_gain, sim.passive_gain)
                IN  sim' = [counted EXCEPT
                               !.bottleneck_class = bottleneck_class,
                               !.active_runs_per_class[bottleneck_class] = @ + 1,
                               !.xp_needed_dict = next_xp_needed,
                               !.pc = IF /\ next_xp_needed # EmptyDict
                                         /\ counted.iteration < MaxIterations
                                      THEN "loop" ELSE "done"]
    /\ UNCHANGED <<leveling_data, sim_frame>>

NextSim == StartSim \/ SimIteration

SpecSim == InitSim /\ [][NextSim]_vars

----------------------------------------------------------------------------
\* Vocabulary of the properties.

\* <<S_0, S_1, ..., S_n>>, S_k the sum of the first k entries of s, as the
\* sequence whose element k+1 is S_k.
RECURSIVE CumRange(_, _, _, _)
CumRange(s, lo, hi, base) ==
    IF lo > hi THEN <<>>
    ELSE IF lo = hi THEN <<base + s[lo]>>
    ELSE LET mid == (lo + hi) \div 2
             left == CumRange(s, lo, mid, base)
         IN left \o CumRange(s, mid + 1, hi, left[Len(left)])

Cum(s) == <<0>> \o CumRange(s, 1, Len(s), 0)

Positive(s) == \A i \in 1..Len(s) : s[i] > 0

DeltaWalks == {"skill", "dungeon", "class", "hotm"}

\* The table the current call reads.
CallTable ==
    CASE fn = "skill" -> leveling_data.xp_table
      [] fn = "hotm" -> leveling_data.hotm_brackets
      [] fn = "slayer" -> DictGet(leveling_data.slayer_xp, boss_key, <<>>)
      [] OTHER -> leveling_data.catacombs_xp

\* The max level of the current delta-walk call.
CallMaxLevel ==
    CASE fn = "skill" -> effective_max_level(leveling_data, skill_name, member_data)
      [] fn = "dungeon" -> 100
      [] fn = "class" -> 50
      [] OTHER -> Len(leveling_data.hotm_brackets)

\* The level the current call returns for XP x, its other arguments unchanged.
CallLevel(x) ==
    CASE fn = "skill" -> calculate_skill_level(leveling_data, x, skill_name, member_data)
      [] fn = "hotm" -> calculate_hotm_level(leveling_data, x)
      [] fn = "dungeon" -> calculate_dungeon_level(leveling_data, x)
      [] fn = "class" -> calculate_class_level(leveling_data, x)
      [] OTHER -> Float(calculate_slayer_level(leveling_data, x, boss_key))

\* The XP values the current call draws from.
CallXPs ==
    CASE fn = "hotm" -> XPs(leveling_data.hotm_brackets)
      [] fn \in {"dungeon", "class"} -> XPs(leveling_data.catacombs_xp)
      [] OTHER -> XPs(leveling_data.xp_table)

\* The result of the current call as a rational.
CallResult == IF fn = "slayer" THEN Float(result) ELSE result

\* The sum of the first n entries of s, of all of them when s has fewer.
SumFirst(s, n) == SumTo(s, Min(n, Len(s)))

----------------------------------------------------------------------------
\* C1: for XP >= 0, calculate_skill_level returns a level in
\* [0, effective_max_level] and calculate_class_level a level in [0, 50].
C1_CapClamp ==
    /\ (fn = "skill" /\ xp >= 0) =>
          /\ RatLE(Float(0), result)
          /\ RatLE(result, Float(effective_max_level(leveling_data, skill_name,
                                                     member_data)))
    /\ (fn = "class" /\ xp >= 0) =>
          /\ RatLE(Float(0), result)
          /\ RatLE(result, Float(50))

\* A skill call on a table longer than the cap, with more XP than the cap
\* needs, answered with the cap.
C1_Witness ==
    /\ fn = "skill"
    /\ Len(leveling_data.xp_table) > CallMaxLevel
    /\ xp > SumTo(leveling_data.xp_table, CallMaxLevel)
    /\ result = Float(CallMaxLevel)

\* C2: each level function is monotonic in XP: a call with XP xp returns no
\* more than the same call with any larger XP.
C2_Monotonic ==
    fn # "idle" =>
        \A x2 \in CallXPs :
            xp <= x2 => RatLE(CallResult, CallLevel(x2))

\* A dungeon call whose level is strictly above the level one XP lower.
C2_Witness ==
    /\ fn = "dungeon"
    /\ xp > 0
    /\ RatLT(CallLevel(xp - 1), result)

\* C3: on a table of positive deltas, XP equal to the sum of the first L
\* entries (1 <= L <= min(table length, max level)) gives exactly level L in
\* every delta-walk function.
C3_BoundaryExact ==
    (fn \in DeltaWalks /\ Positive(CallTable)) =>
        LET c == Cum(CallTable) IN
        \A L \in 1..Min(Len(CallTable), CallMaxLevel) :
            xp = c[L + 1] => result = Float(L)

\* C4: XP in [S_i, S_i+1) with i below the max level and entry i > 0 gives
\* i + (XP - S_i) / entry_i in every delta-walk function.
C4_Interpolation ==
    fn \in DeltaWalks =>
        LET t == CallTable
            c == Cum(t)
        IN \A i \in 0..(Len(t) - 1) :
            (i < CallMaxLevel /\ t[i + 1] > 0 /\ c[i + 1] <= xp /\ xp < c[i + 2])
                => result = Rat(i * t[i + 1] + (xp - c[i + 1]), t[i + 1])

\* A class call on [50,100,150,200,250] with XP 225, answered 2.5.
C4_Witness ==
    /\ fn = "class"
    /\ leveling_data.catacombs_xp = <<50, 100, 150, 200, 250>>
    /\ xp = 225
    /\ result = <<5, 2>>

\* C5 as stated: calculate_skill_level returns effective_max_level when XP is
\* at least the sum of the first effective_max_level entries, and less than
\* effective_max_level when XP is below that sum.
C5_Original ==
    fn = "skill" =>
        LET total == SumFirst(leveling_data.xp_table, CallMaxLevel) IN
        /\ xp >= total => result = Float(CallMaxLevel)
        /\ xp < total => RatLT(result, Float(CallMaxLevel))

\* C5 amended: the same, for a non-empty table.
C5_MaxAtTotal ==
    (fn = "skill" /\ leveling_data.xp_table # <<>>) =>
        LET total == SumFirst(leveling_data.xp_table, CallMaxLevel) IN
        /\ xp >= total => result = Float(CallMaxLevel)
        /\ xp < total => RatLT(result, Float(CallMaxLevel))

\* A skill call on a table longer than the cap, with exactly the sum of the
\* first effective_max_level entries, answered with the cap.
C5_Witness ==
    /\ fn = "skill"
    /\ CallMaxLevel >= 1
    /\ Len(leveling_data.xp_table) > CallMaxLevel
    /\ xp = SumTo(leveling_data.xp_table, CallMaxLevel)
    /\ result = Float(CallMaxLevel)

\* C6: on a table with fewer entries than the cap, XP equal to the table's
\* total gives the number of entries; [100,200,300] with mining at cap 50
\* gives 0.0, 1.0, 1.5 and 3.0 for XP 0, 100, 150 and 600.
C6_ShortTable ==
    fn = "skill" =>
        /\ (Len(leveling_data.xp_table) < CallMaxLevel
              /\ xp = PySum(leveling_data.xp_table))
           => result = Float(Len(leveling_data.xp_table))
        /\ (leveling_data.xp_table = <<100, 200, 300>> /\ skill_name = "mining"
              /\ CallMaxLevel = 50)
           => /\ xp = 0 => result = Float(0)
              /\ xp = 100 => result = Float(1)
              /\ xp = 150 => result = <<3, 2>>
              /\ xp = 600 => result = Float(3)

\* C7 as stated: for taming the cap is 50 + min(k, 10), k the number of
\* sacrificed pet types (0 without a member context), whatever level_caps
\* holds: with XP at or above the cap total the result is that cap.
C7_Original ==
    (fn = "skill" /\ skill_name = "taming" /\ leveling_data.xp_table # <<>>) =>
        LET k == IF Truthy(member_data) THEN member_data.pet_types_sacrificed ELSE 0
            cap == 50 + Min(k, 10)
        IN xp >= SumFirst(leveling_data.xp_table, cap) => result = Float(cap)

\* What calculate_skill_level does for taming (line 46): the cap is
\* 50 + min(k, 10) for a non-empty member context only, and
\* level_caps["taming"] (50 when absent) for an empty or absent one.
C7_TamingCap ==
    (fn = "skill" /\ skill_name = "taming" /\ leveling_data.xp_table # <<>>) =>
        LET k == member_data.pet_types_sacrificed
            cap == IF Truthy(member_data) THEN 50 + Min(k, 10)
                   ELSE DictGet(leveling_data.level_caps, "taming", 50)
        IN /\ xp >= SumFirst(leveling_data.xp_table, cap) => result = Float(cap)
           /\ xp < SumFirst(leveling_data.xp_table, cap) => RatLT(result, Float(cap))
           /\ (Truthy(member_data) /\ k = 3
                 /\ xp >= SumFirst(leveling_data.xp_table, 53)) => result = Float(53)
           /\ (Truthy(member_data) /\ k = 12
                 /\ xp >= SumFirst(leveling_data.xp_table, 60)) => result = Float(60)

\* A taming call with 12 sacrificed pet types on a table of more than 60
\* entries, answered 60.
C7_Witness ==
    /\ fn = "skill"
    /\ skill_name = "taming"
    /\ Truthy(member_data)
    /\ member_data.pet_types_sacrificed = 12
    /\ Len(leveling_data.xp_table) > 60
    /\ xp >= SumTo(leveling_data.xp_table, 60)
    /\ result = Float(60)

\* C8: on an empty table the four delta-walk functions return 0.0, and
\* calculate_slayer_level returns 0 for a missing boss key or an empty
\* threshold list, for every XP.
C8_EmptyTable ==
    /\ (fn \in DeltaWalks /\ CallTable = <<>>) => result = Float(0)
    /\ (fn = "slayer" /\ CallTable = <<>>) => result = 0

\* A skill call with positive XP on an empty table, and so answered 0.0.
C8_Witness ==
    /\ fn = "skill"
    /\ leveling_data.xp_table = <<>>
    /\ xp > 0
    /\ result = Float(0)

\* C9 as stated: calculate_dungeon_level never returns more than 100, and
\* returns 100.0 whenever XP is at least the sum of the whole table, for a
\* table of any length.
C9_Original ==
    fn = "dungeon" =>
        /\ RatLE(result, Float(100))
        /\ xp >= PySum(leveling_data.catacombs_xp) => result = Float(100)

\* C9 amended: the same, the 100.0 for a non-empty table only.
C9_DungeonMax ==
    fn = "dungeon" =>
        /\ RatLE(result, Float(100))
        /\ (leveling_data.catacombs_xp # <<>>
              /\ xp >= PySum(leveling_data.catacombs_xp)) => result = Float(100)

\* A dungeon call on a table of more than 100 entries, with XP past the first
\* 100 entries and short of the whole table, answered 100.
C9_Witness ==
    /\ fn = "dungeon"
    /\ Len(leveling_data.catacombs_xp) > 100
    /\ xp > SumTo(leveling_data.catacombs_xp, 100)
    /\ xp < PySum(leveling_data.catacombs_xp)
    /\ result = Float(100)

\* The class level of XP x on table t under the level caps caps.
ClassLevelOn(t, caps, x) == calculate_class_level(LevelingDataOf(t, caps), x)

\* C10 as stated: calculate_class_level returns the same value on any two
\* tables that agree on their first 50 entries, whatever the level caps, and
\* 50.0 when XP is at least the sum of those entries.
C10_Original ==
    fn = "class" =>
        LET t == leveling_data.catacombs_xp IN
        /\ \A t2 \in Tables, caps \in CapsMaps :
              PySlice(t2, 50) = PySlice(t, 50) => ClassLevelOn(t2, caps, xp) = result
        /\ xp >= SumFirst(t, 50) => result = Float(50)

\* C10 amended: the same, the 50.0 for a non-empty table only.
C10_ClassFirst50 ==
    fn = "class" =>
        LET t == leveling_data.catacombs_xp IN
        /\ \A t2 \in Tables, caps \in CapsMaps :
              PySlice(t2, 50) = PySlice(t, 50) => ClassLevelOn(t2, caps, xp) = result
        /\ (t # <<>> /\ xp >= SumFirst(t, 50)) => result = Float(50)

\* A class call on a table of more than 50 entries that another table
\* continues differently after entry 50, with XP past the first 50 entries.
C10_Witness ==
    /\ fn = "class"
    /\ Len(leveling_data.catacombs_xp) > 50
    /\ \E t2 \in Tables :
          /\ t2 # leveling_data.catacombs_xp
          /\ PySlice(t2, 50) = PySlice(leveling_data.catacombs_xp, 50)
    /\ xp > SumTo(leveling_data.catacombs_xp, 50)
    /\ xp < PySum(leveling_data.catacombs_xp)
    /\ result = Float(50)

\* C11: on a non-empty hotm_brackets table calculate_hotm_level never returns
\* more than the table length, and returns the table length exactly when XP
\* is at least the sum of the whole table.
C11_HotmMax ==
    (fn = "hotm" /\ leveling_data.hotm_brackets # <<>>) =>
        LET t == leveling_data.hotm_brackets IN
        /\ RatLE(result, Float(Len(t)))
        /\ xp >= PySum(t) <=> result = Float(Len(t))

\* A HotM call on a table whose length is none of the hard-coded caps, with
\* more XP than the table holds, answered with the table length.
C11_Witness ==
    /\ fn = "hotm"
    /\ Len(leveling_data.hotm_brackets) \notin {0, 50, 100}
    /\ xp > PySum(leveling_data.hotm_brackets)
    /\ result = Float(Len(leveling_data.hotm_brackets))

\* thresholds is in non-decreasing order.
Sorted(thresholds) ==
    \A i \in 1..(Len(thresholds) - 1) : thresholds[i] <= thresholds[i + 1]

\* thresholds is in strictly increasing order.
Ascending(thresholds) ==
    \A i \in 1..(Len(thresholds) - 1) : thresholds[i] < thresholds[i + 1]

\* The largest level in 0..len(thresholds) whose threshold x meets (0 when
\* it meets none).
LargestLevelMet(thresholds, x) ==
    LET met == {l \in 1..Len(thresholds) : x >= thresholds[l]}
    IN IF met = {} THEN 0 ELSE CHOOSE l \in met : \A m \in met : m <= l

\* C12 as stated: for a threshold list in any order calculate_slayer_level
\* returns the largest level whose threshold XP meets, 0 when XP is below the
\* first threshold or the boss key is missing, and never more than the list
\* length.
C12_Original ==
    fn = "slayer" =>
        /\ result = LargestLevelMet(CallTable, xp)
        /\ result <= Len(CallTable)
        /\ (boss_key \notin DOMAIN leveling_data.slayer_xp) => result = 0
        /\ (CallTable # <<>> /\ xp < CallTable[1]) => result = 0

\* C12 amended: the same for a threshold list in non-decreasing order; for
\* any list the result is 0 when XP is below the first threshold or the boss
\* key is missing, and never more than the list length.
C12_SlayerLargest ==
    fn = "slayer" =>
        /\ Sorted(CallTable) => result = LargestLevelMet(CallTable, xp)
        /\ result <= Len(CallTable)
        /\ (boss_key \notin DOMAIN leveling_data.slayer_xp) => result = 0
        /\ (CallTable # <<>> /\ xp < CallTable[1]) => result = 0

\* A slayer call on a sorted list of distinct thresholds with XP between two
\* of them.
C12_Witness ==
    /\ fn = "slayer"
    /\ Len(CallTable) >= 2
    /\ Ascending(CallTable)
    /\ xp >= CallTable[1]
    /\ xp < CallTable[Len(CallTable)]
    /\ result = LargestLevelMet(CallTable, xp)
    /\ result >= 1

\* C13: on a strictly increasing threshold list, for every index k (0-based)
\* calculate_slayer_level returns k for XP one below thresholds[k] and k + 1
\* for XP equal to thresholds[k]; the result is a non-negative integer.
C13_SlayerStep ==
    fn = "slayer" =>
        /\ result \in Nat
        /\ Ascending(CallTable) =>
              \A k \in 0..(Len(CallTable) - 1) :
                  /\ xp = CallTable[k + 1] - 1 => result = k
                  /\ xp = CallTable[k + 1] => result = k + 1

\* A slayer call with XP equal to the second of two increasing thresholds,
\* answered 2.
C13_Witness ==
    /\ fn = "slayer"
    /\ Len(CallTable) >= 2
    /\ Ascending(CallTable)
    /\ xp = CallTable[2]
    /\ result = 2

----------------------------------------------------------------------------
\* XPProvider: the sequence of xp_generator().

\* last and second-to-last entry of a table of at least two entries
LastEntry(t) == t[Len(t)]
SecondLastEntry(t) == t[Len(t) - 1]

\* Number of multiples of 10 among lo..hi (1 <= lo).
Tens(lo, hi) == Max(0, (hi \div 10) - ((lo - 1) \div 10))

RECURSIVE Pow2(_)
Pow2(n) == IF n <= 0 THEN 1 ELSE 2 * Pow2(n - 1)

\* The slope added to term k-1 to give term k > N of a table t of N >= 2
\* entries: it starts at 2 * (last - second_last) and has doubled once for
\* every level counter N+1 .. k-2 that is a multiple of 10 (the term
\* yielded right after the counter reaches a multiple of 10 still uses the
\* slope before doubling).
SlopeAt(t, k) ==
    2 * (LastEntry(t) - SecondLastEntry(t)) * Pow2(Tens(Len(t) + 1, k - 2))

\* Term k (from 0) of what iterator n has yielded.
Term(n, k) == iters[n].yielded[k + 1]
TermCount(n) == Len(iters[n].yielded)

\* C14: for a table of N >= 2 entries every iterator yields term 0 = 0,
\* terms 1..N = the table entries in order, term N+1 = table[N-1] + slope
\* with slope = 2 * (table[N-1] - table[N-2]), and every later term =
\* previous term + current slope, the slope doubling once per ten levels
\* (whenever the level counter reaches a multiple of 10); no next() fails.
C14_Sequence ==
    \A n \in DOMAIN iters :
        Len(provider.levels) >= 2 =>
            /\ iters[n].status = "yield"
            /\ \A k \in 0..(TermCount(n) - 1) :
                   Term(n, k) =
                       IF k = 0 THEN 0
                       ELSE IF k <= Len(provider.levels) THEN provider.levels[k]
                       ELSE Term(n, k - 1) + SlopeAt(provider.levels, k)

\* An iterator over a rising table of length 2 or 3 has yielded term 12,
\* whose step is twice the step of term 11, and term 22, whose step is
\* twice that of term 21.
C14_Witness ==
    \E n \in DOMAIN iters :
        /\ Len(provider.levels) \in 2..9
        /\ LastEntry(provider.levels) > SecondLastEntry(provider.levels)
        /\ TermCount(n) >= 23
        /\ Term(n, 12) - Term(n, 11) = 2 * (Term(n, 11) - Term(n, 10))
        /\ Term(n, 22) - Term(n, 21) = 2 * (Term(n, 21) - Term(n, 20))
        /\ Term(n, Len(provider.levels) + 1)
             = LastEntry(provider.levels)
               + 2 * (LastEntry(provider.levels) - SecondLastEntry(provider.levels))

\* C15: for every table the generated sequence agrees with the table at
\* every index within the table's length (term k = table[k-1], 1 <= k <= N)
\* and every term beyond the table is strictly greater than the term
\* before it.
C15_Continuity ==
    \A n \in DOMAIN iters :
        /\ \A k \in 1..Min(TermCount(n) - 1, Len(provider.levels)) :
               Term(n, k) = provider.levels[k]
        /\ \A k \in (Len(provider.levels) + 1)..(TermCount(n) - 1) :
               Term(n, k) > Term(n, k - 1)

\* C16: an iterator of a provider built with max_level m (not None) ends
\* after at most m terms; with max_level None (and a table of >= 2 entries)
\* it never ends.
C16_MaxLevel ==
    \A n \in DOMAIN iters :
        /\ provider.max_level # <<>> => TermCount(n) <= provider.max_level[1]
        /\ (provider.max_level = <<>> /\ Len(provider.levels) >= 2) =>
               iters[n].status = "yield"

\* C17: every xp_generator() call yields the same sequence from term 0,
\* whatever was consumed from earlier iterators of the provider: a new
\* iterator starts with nothing yielded, the first term of every iterator
\* is 0, and two iterators agree on every term both have yielded; a next()
\* on one iterator leaves the provider and every other iterator unchanged.
C17_SameSequence ==
    \A n, m \in DOMAIN iters :
        /\ TermCount(n) >= 1 => Term(n, 0) = 0
        /\ \A k \in 0..(Min(TermCount(n), TermCount(m)) - 1) :
               Term(n, k) = Term(m, k)
        /\ (iters[n].status = "IndexError" /\ TermCount(m) >= TermCount(n)) =>
               TermCount(m) = TermCount(n)

C17_Frame ==
    /\ provider' = provider
    /\ \A n \in DOMAIN iters :
           /\ n \in DOMAIN iters'
           /\ (iters'[n] # iters[n]) =>
                  \A m \in DOMAIN iters \ {n} : iters'[m] = iters[m]
    /\ \A n \in DOMAIN iters' \ DOMAIN iters : TermCount(n)' = 0

C17_Restartable == [](C17_SameSequence) /\ [][C17_Frame]_vars

\* The second iterator was created after the first had yielded terms
\* beyond the table, and has itself yielded the first term beyond it.
C17_Witness ==
    /\ DOMAIN iters = IterNames
    /\ Len(provider.levels) >= 2
    /\ LastEntry(provider.levels) # SecondLastEntry(provider.levels)
    /\ \E n, m \in IterNames :
        /\ TermCount(n) = MaxTerms
        /\ TermCount(m) = Len(provider.levels) + 2
        /\ Term(m, Len(provider.levels) + 1) = Term(n, Len(provider.levels) + 1)

----------------------------------------------------------------------------
\* The overflow walk.

\* The skill calls whose cap is at least the length of the table.
\* The XP of the walk is a number, a number >= 0, a whole number.
IsNumberXP(x) == x # NoneXP
IsXPFrom0(x) == IsNumberXP(x) /\ x[1] >= 0
IsWholeXP(x) == IsNumberXP(x) /\ x[2] = 1

UncappedInputs ==
    {inp \in SkillInputs :
        effective_max_level(leveling_data, inp[1], inp[2])
            >= Len(leveling_data.xp_table)}

\* C18: for every non-empty table of non-negative entries, every cap >= the
\* table length and every XP with 0 <= XP < sum(table), the decimal level
\* of the overflow walk (fully paid terms plus remaining_xp / next term)
\* equals calculate_skill_level on the same table and XP.
C18_SameWalk ==
    (/\ walk.pc = "done"
     /\ provider.levels # <<>>
     /\ IsWholeXP(walk.total_xp)
     /\ walk.total_xp[1] >= 0
     /\ walk.total_xp[1] < PySum(provider.levels)) =>
        \A inp \in UncappedInputs :
            walk.decimal_level
                = calculate_skill_level(leveling_data, walk.total_xp[1], inp[1], inp[2])

\* A walk that stopped inside a level of the table after paying for at
\* least one level, with a fractional level, compared with a skill call.
C18_Witness ==
    /\ walk.pc = "done"
    /\ IsWholeXP(walk.total_xp)
    /\ walk.total_xp[1] >= 0
    /\ walk.total_xp[1] < PySum(provider.levels)
    /\ walk.achieved_level >= 1
    /\ walk.current_xp[1] > 0
    /\ walk.decimal_level[2] > 1
    /\ UncappedInputs # {}

\* C19: the overflow walk never raises: for every xp_table, the empty one
\* and one with a single entry included, and every XP >= 0 it ends with a
\* number, 0 for an empty table.
C19_NeverRaises ==
    IsXPFrom0(walk.total_xp) =>
        /\ walk.pc # "raised"
        /\ (walk.pc = "done" /\ provider.levels = <<>>) =>
               walk.decimal_level = Float(0)

----------------------------------------------------------------------------
\* _get_xp_for_target_level.

\* C20: for a non-empty catacombs table and every 1-based target level
\* T >= 1, _get_xp_for_target_level returns the sum of the first
\* min(T, len(table)) entries (the whole table when T exceeds its length),
\* a finite number, and no larger than what it returns for any greater
\* target level.
C20_TargetXP ==
    (/\ fn = "target"
     /\ leveling_data.catacombs_xp # <<>>
     /\ target_level >= 1) =>
        LET t == leveling_data.catacombs_xp IN
        /\ result = Float(SumFirst(t, target_level))
        /\ result # Inf
        /\ \A later \in TargetLevels(t) :
               later >= target_level =>
                   RatLE(result, _get_xp_for_target_level(leveling_data, later))

\* A target level past the end of a table whose last entry is positive:
\* the result is the sum of the whole table, more than for the level before
\* the last.
C20_Witness ==
    /\ fn = "target"
    /\ Len(leveling_data.catacombs_xp) >= 2
    /\ LastEntry(leveling_data.catacombs_xp) > 0
    /\ target_level > Len(leveling_data.catacombs_xp)
    /\ result = Float(PySum(leveling_data.catacombs_xp))
    /\ RatLT(_get_xp_for_target_level(leveling_data,
                                     Len(leveling_data.catacombs_xp) - 1),
             result)

----------------------------------------------------------------------------
\* Concurrent calls.

\* The terms a next() loop of n turns takes from a new iterator over
\* levels, and how it ends, run alone.
RECURSIVE TakeAlone(_, _, _, _)
TakeAlone(levels, it, taken, n) ==
    IF n = 0 THEN [yielded |-> taken, ret |-> <<"taken">>]
    ELSE LET r == IterNext(levels, it) IN
         IF r.kind # "yield" THEN [yielded |-> taken, ret |-> <<r.kind>>]
         ELSE TakeAlone(levels, r.it, Append(taken, r.value), n - 1)

\* What the call of a finished task returns when it runs alone.
Alone(ld, tk) ==
    CASE tk.kind = "skill" -> calculate_skill_level(ld, tk.x, tk.name, tk.md)
      [] tk.kind = "hotm" -> calculate_hotm_level(ld, tk.x)
      [] tk.kind = "dungeon" -> calculate_dungeon_level(ld, tk.x)
      [] tk.kind = "class" -> calculate_class_level(ld, tk.x)
      [] tk.kind = "slayer" -> calculate_slayer_level(ld, tk.x, tk.boss)
      [] tk.kind = "iter" ->
            TakeAlone(ld.xp_table, xp_generator(XPProvider(ld.xp_table, <<>>)),
                      <<>>, TermsTaken(ld)).ret

\* Every finished call holds the value, and a finished consumer the terms,
\* of the same call run alone on the shared tables.
C21_SameAsAlone ==
    \A t \in DOMAIN tasks :
        /\ tasks[t].pc = "done" => tasks[t].ret = Alone(leveling_data, tasks[t])
        /\ (tasks[t].pc = "done" /\ tasks[t].kind = "iter") =>
               tasks[t].yielded
                   = TakeAlone(leveling_data.xp_table,
                               xp_generator(XPProvider(leveling_data.xp_table, <<>>)),
                               <<>>, TermsTaken(leveling_data)).yielded

\* C21: under every interleaving of the steps of concurrent calls to the
\* level functions and of XPProvider iteration, no step changes
\* LevelingData, and every finished call has returned what the same call
\* returns when it runs alone.
C21_ReadOnly == [](C21_SameAsAlone) /\ [][leveling_data' = leveling_data]_vars

\* Two calls that were both inside their loops have both finished, a skill
\* level with a fractional value and an iterator that went past the table.
C21_Witness ==
    /\ DOMAIN tasks = TaskNames
    /\ \E t, u \in TaskNames :
        /\ tasks[t].pc = "done" /\ tasks[t].kind = "skill"
        /\ tasks[t].i >= 1 /\ tasks[t].ret[2] > 1
        /\ tasks[u].pc = "done" /\ tasks[u].kind = "iter"
        /\ Len(tasks[u].yielded) > Len(leveling_data.xp_table) + 1

----------------------------------------------------------------------------
\* _load_leveling_data.

\* C22: _load_leveling_data never raises and always returns all five
\* entries: a missing file, undecodable JSON or any other load error gives
\* five empty tables and maps; a document lacking a field gives an empty
\* value for that field, and every field that is present is loaded.
C22_LoadDegrades ==
    loader.pc = "loaded" =>
        /\ loader.outcome = "return"
        /\ DOMAIN leveling_data = Entries
        /\ LoadError(loader.file) # "" => leveling_data = EmptyLevelingData
        /\ LoadError(loader.file) = "" =>
               \A e \in Entries :
                   IF FieldOf[e] \in DOMAIN loader.file.doc
                   THEN leveling_data[e]
                            = JsonValue(FieldOf[e], loader.file.doc[FieldOf[e]])
                   ELSE leveling_data[e] = <<>>

\* A document with some fields and without others was loaded.
C22_Witness ==
    /\ loader.pc = "loaded"
    /\ loader.file.kind = "json"
    /\ loader.file.is_object
    /\ "leveling_xp" \in DOMAIN loader.file.doc
    /\ loader.file.doc["leveling_xp"] = "value"
    /\ "catacombs" \notin DOMAIN loader.file.doc
    /\ leveling_data.xp_table = <<1, 2>>
    /\ leveling_data.catacombs_xp = <<>>

----------------------------------------------------------------------------
\* The zero-delta guard.

\* The entries the current delta walk can reach: the table up to the cap
\* of the call (the first 50 entries for a class level).
WalkedEntries ==
    IF fn = "class" THEN PySlice(CallTable, MaxClassLevel)
    ELSE IF fn = "hotm" THEN CallTable
    ELSE PySlice(CallTable, CallMaxLevel)

\* The 0-based indices at which the walk over s stops for XP x: the first
\* entry whose cumulative total x does not reach.
StopsAt(s, x) ==
    LET c == Cum(s)
    IN {i \in 0..(Len(s) - 1) :
           /\ x < c[i + 2]
           /\ \A j \in 0..(i - 1) : x >= c[j + 2]}

\* C23: no delta walk (skill, dungeon, class, HotM) divides by a zero delta:
\* the level returned is a number with a non-zero denominator, and whenever
\* the walk stops at an entry equal to 0 the level is the integer count of
\* the levels completed before that entry.
C23_ZeroDelta ==
    (fn \in DeltaWalks /\ CallTable # <<>>) =>
        /\ result[2] > 0
        /\ \A i \in StopsAt(WalkedEntries, xp) :
               WalkedEntries[i + 1] = 0 => result = Float(i)

\* A walk stopped at a zero entry of a table that also has a positive one.
C23_Witness ==
    /\ fn \in DeltaWalks
    /\ Len(CallTable) >= 2
    /\ CallTable[1] = 0
    /\ CallTable[2] > 0
    /\ 0 \in StopsAt(WalkedEntries, xp)
    /\ result = Float(0)

----------------------------------------------------------------------------
\* The max-level total of the catacombs level.

\* calculate_dungeon_level with the total for the max level taken over the
\* first 100 entries of the table only.
calculate_dungeon_level_first_100(ld, x) ==
    IF ld.catacombs_xp = <<>> THEN Float(0)
    ELSE LET max_level == DungeonMaxLevel
             xp_table == ld.catacombs_xp
             total_xp_for_max == PySum(PySlice(xp_table, max_level))
         IN IF x >= total_xp_for_max
            THEN Float(max_level)
            ELSE DungeonWalk(xp_table, x, max_level)

\* C24: for every table of non-negative entries, of any length, and every
\* XP >= 0, calculate_dungeon_level (which sums the whole table) returns
\* the value of the variant that sums the first 100 entries only.
C24_WholeTableSum ==
    (fn = "dungeon" /\ xp >= 0) =>
        result = calculate_dungeon_level_first_100(leveling_data, xp)

\* A table longer than 100 entries and an XP that reaches the total of the
\* first 100 but not the total of the table: level 100 from the break of
\* the loop, where the variant returns it before the loop.
C24_Witness ==
    /\ fn = "dungeon"
    /\ Len(leveling_data.catacombs_xp) > DungeonMaxLevel
    /\ xp >= SumTo(leveling_data.catacombs_xp, DungeonMaxLevel)
    /\ xp < PySum(leveling_data.catacombs_xp)
    /\ result = Float(DungeonMaxLevel)

----------------------------------------------------------------------------
\* Termination of the overflow walk.

\* A walk that cannot stop any more: it is in its loop, the generator is
\* past the table with a slope <= 0, the term it yielded last is <= 0 and
\* the remaining XP is >= 0. Every later term is then <= 0 (the slope stays
\* <= 0 when doubled), the remaining XP never falls, and line 61 is false
\* in every later turn.
NeverStops ==
    /\ walk.pc = "loop"
    /\ walk.it.gen.pc = "loop"
    /\ walk.it.gen.current_slope <= 0
    /\ walk.it.gen.current_xp <= 0
    /\ IsXPFrom0(walk.current_xp)

\* Once a walk cannot stop, no step changes that.
NeverStopsIsClosed == [][NeverStops => NeverStops']_vars

\* C25: for every xp_table with at least two entries and every XP >= 0 the
\* overflow walk terminates, so it never reaches a state from which no
\* later term can exceed the remaining XP.
C25_WalkTerminates ==
    (/\ walk.pc = "loop"
     /\ Len(provider.levels) >= 2
     /\ IsXPFrom0(walk.total_xp)) => ~NeverStops

----------------------------------------------------------------------------
\* C26: a get(key) at time t' returns the value v of the last set(key, v),
\* made at time t and followed by no set, delete or clear of that key, if
\* t' - t < ttl, and None if t' - t >= ttl; it returns None for a key never
\* set, or deleted or cleared since.
C26_TtlVisibility ==
    call.op = "get" =>
        call.ret = IF /\ WrittenValue(call.cache, call.key) # None
                      /\ call.time - WrittenTime(call.cache, call.key)
                             < cache[call.cache].ttl
                   THEN WrittenValue(call.cache, call.key)
                   ELSE None

\* A get of a key whose last set() is exactly ttl old: it returns None while
\* the entry is still in the dict.
C26_Witness ==
    /\ call.op = "get"
    /\ call.key \in DOMAIN written[call.cache]
    /\ call.key \in DOMAIN cache[call.cache].cache
    /\ call.time - WrittenTime(call.cache, call.key) = cache[call.cache].ttl
    /\ call.ret = None

\* C27: after invalidate_player(username), at every time until the next
\* call, get_uuid(username) returns None and get_skyblock_data(u) returns
\* None for the UUID u last stored for that username.
C27_InvalidatesPlayer ==
    call.op = "invalidate_player" =>
        /\ get_uuid(cache, call.key, clock) = None
        /\ call.stored # None =>
               get_skyblock_data(cache, call.stored, clock) = None

----------------------------------------------------------------------------
\* The profiles the player is a member of.
MemberProfiles(profiles) == {i \in 1..Len(profiles) : IsMember(profiles[i])}

\* C28: _find_latest_profile returns a profile whenever the player is a
\* member of one: a selected profile the player is a member of if there is
\* one, otherwise a member profile with the greatest last_save, and None
\* only when the player is a member of no profile.
C28_FindsProfile ==
    lookup.pc = "returned" =>
        LET profiles == lookup.profiles
            members == MemberProfiles(profiles)
            selected == {i \in members : profiles[i].selected}
        IN  /\ members # {} => lookup.ret \in members
            /\ selected # {} => lookup.ret \in selected
            /\ (selected = {} /\ members # {}) =>
                   \A j \in members :
                       LastSaveOf(profiles[lookup.ret]) >= LastSaveOf(profiles[j])
            /\ lookup.ret = 0 => members = {}

\* C29: _fetch_live_hypixel_streamers terminates: when every request is
\* answered and the pagination is finite, the fetch eventually returns a list
\* or None, whatever statuses the API answers with, 401 included.
C29_FetchTerminates == <>(fetch.pc = "returned")

----------------------------------------------------------------------------
\* sum(active_runs_per_class.values())
SumOfRuns(runs) == SumTo([i \in 1..Len(CLASS_NAMES) |-> runs[CLASS_NAMES[i]]],
                         Len(CLASS_NAMES))

\* One turn of the loop: it ends without raising; exactly one class, one
\* with the largest ceil(needed / active_gain), gets the active run; every
\* class still in need needs less than before and no class comes back; the
\* loop stops exactly when no class is in need or max_iterations is reached.
TurnAccounts ==
    (sim.pc = "loop" /\ sim' # sim) =>
        LET before == sim.xp_needed_dict
            after == sim'.xp_needed_dict
        IN  /\ sim'.pc \in {"loop", "done"}
            /\ \E c \in DOMAIN before :
                   /\ \A k \in DOMAIN before :
                          CeilOfQuotient(before[k], sim.active_gain)
                              <= CeilOfQuotient(before[c], sim.active_gain)
                   /\ sim'.active_runs_per_class =
                          [sim.active_runs_per_class EXCEPT ![c] = @ + 1]
            /\ DOMAIN after \subseteq DOMAIN before
            /\ \A k \in DOMAIN after : RatLT(after[k], before[k])
            /\ sim'.pc = "done" <=>
                   (after = EmptyDict \/ sim'.iteration >= MaxIterations)

\* C30: the rtca run simulation terminates and accounts for every run: every
\* turn of its loop is as TurnAccounts says, the loop takes at most 100000
\* turns, and total_runs_simulated is the sum of active_runs_per_class.
C30_SimulationAccounts ==
    /\ [](sim.pc \in {"loop", "done", "raised"} =>
              /\ sim.iteration <= MaxIterations
              /\ sim.total_runs_simulated = SumOfRuns(sim.active_runs_per_class))
    /\ [][TurnAccounts]_vars

====
